---- MODULE Spec2Model ----
(***************************************************************************)
(* A model of pints/_optimisers/__init__.py: the Optimisation driver       *)
(* (Optimisation.run and the configuration it reads) together with the     *)
(* ask/tell contract of the Optimiser it drives.                           *)
(*                                                                         *)
(* Floating point values are records [k, v]: k is "fin" (a finite value v, *)
(* on an integer grid), "inf", "ninf" or "nan"; comparisons and arithmetic *)
(* follow IEEE 754 as Python and numpy apply them.  An optional value      *)
(* (None or a value) is the empty sequence or a one-element sequence.      *)
(***************************************************************************)
EXTENDS Integers, Sequences, FiniteSets, TLC

\* Bounds of the model.
MaxIter == 2
MaxScore == 2

----------------------------------------------------------------------------
\* Floating point values.

Fin(n) == [k |-> "fin", v |-> n]
Inf == [k |-> "inf", v |-> 0]
NegInf == [k |-> "ninf", v |-> 0]
NaN == [k |-> "nan", v |-> 0]

\* a < b on floats: False whenever either side is NaN.
FLt(a, b) ==
    CASE a.k = "nan" \/ b.k = "nan" -> FALSE
      [] a.k = "ninf" -> b.k # "ninf"
      [] a.k = "inf" -> FALSE
      [] OTHER -> \/ b.k = "inf"
                  \/ (b.k = "fin" /\ a.v < b.v)

\* -a on floats.
FNeg(a) ==
    CASE a.k = "fin" -> Fin(0 - a.v)
      [] a.k = "inf" -> NegInf
      [] a.k = "ninf" -> Inf
      [] OTHER -> NaN

\* a - b on floats: inf - inf is NaN.
FSub(a, b) ==
    CASE a.k = "nan" \/ b.k = "nan" -> NaN
      [] a.k = "fin" /\ b.k = "fin" -> Fin(a.v - b.v)
      [] a.k = "fin" -> FNeg(b)
      [] b.k = "fin" -> a
      [] a.k = b.k -> NaN
      [] OTHER -> a

\* np.abs on floats.
FAbs(a) ==
    CASE a.k = "fin" -> Fin(IF a.v < 0 THEN 0 - a.v ELSE a.v)
      [] a.k = "nan" -> NaN
      [] OTHER -> Inf

\* Optional values.
None == << >>
Some(x) == << x >>

----------------------------------------------------------------------------
\* The values the model draws its inputs from.

\* Points of the search space and the batches an ask() may return.
Points == {0, 1}
Batches(n) == [1..n -> Points]

\* Values an optimiser may report as fbest(): any float, NaN included.
ScoreValues == {Fin(n) : n \in 0..MaxScore} \cup {Inf, NaN}

\* What set_max_iterations accepts: None or an int >= 0.
MaxIterationsValues == {None} \cup {Some(n) : n \in 0..MaxIter}

\* What set_max_unchanged_iterations accepts: None or an int >= 0, and a
\* threshold that is a float >= 0.
MaxUnchangedValues == {None} \cup {Some(n) : n \in 0..MaxIter}
SignificantChangeValues == {Fin(n) : n \in 1..MaxScore}

\* What set_threshold accepts: None or a float.
ThresholdValues == {None} \cup {Some(Fin(n)) : n \in 1..MaxScore}

\* What Optimiser.stop() returns: False or a short message.
StopResults == {"False", "Ill-conditioned matrix."}

\* What may end the loop from inside ask, evaluate or tell.
Exceptions == {"Exception", "SystemExit", "KeyboardInterrupt"}

\* The objective: an ErrorMeasure f, or a LogPDF g wrapped in a
\* ProbabilityBasedError, which evaluates to -g.
ErrorMeasure(x) == Fin(x * x)
LogPDF(x) == Fin(0 - (x * x))

----------------------------------------------------------------------------
VARIABLES
    \* Optimisation's configuration (self._minimising, self._max_iterations, ...)
    minimising, max_iterations, max_unchanged_iterations,
    min_significant_change, threshold, parallel, n_workers,
    log_to_screen, log_filename,
    \* the optimiser (self._optimiser): its kind, population size, best score
    \* and position, and the scores its last tell() received
    population_based, population_size, opt_fbest, opt_xbest, told,
    \* the optimiser's running(), the value of its population size heuristic
    \* (_suggested_population_size()), and the fields its constructor sets
    \* (self._dimension, self._x0, self._sigma0, self._boundaries)
    opt_running, suggested, dimension, x0, sigma0, boundaries,
    \* what the optimiser's stop() returned when run() last called it
    opt_stop,
    \* a TriangleWaveTransform (self._lower, self._upper, self._range,
    \* self._range2)
    wave,
    \* an error measure: a ProbabilityBasedError, a SumOfErrors, or the
    \* function an Optimisation stores (self._function)
    measure,
    \* a StochasticDegradationModel (self._n0, self._mol_count, self._time)
    \* and the simulate() it is carrying out
    model,
    \* the last call made on one of these objects outside run(), and what it
    \* returned or raised
    call, outcome,
    \* the locals of run()
    pc, iteration, evaluations, unchanged_iterations, evaluator,
    fbest, fbest_user, next_message, running, halt_message, xs, fs,
    \* what run() shows and gives back: the last in-loop log row, the
    \* iterations that were logged, the final log row, the report printed by
    \* the exception handler, and the value returned or the error raised
    log_last, log_iters, log_final, printed, result,
    \* history: the calls made on the optimiser and the evaluator, the
    \* stopping criteria satisfied in the last iteration, and the failure
    \* raised inside the loop
    calls, fired, failure,
    \* inside one evaluate(xs): the positions not yet taken by a worker,
    \* those a worker is evaluating, the scores stored so far (by position)
    \* and the order in which the evaluations completed
    pending, inflight, results, order,
    \* the same run with a SequentialEvaluator, stepped alongside
    seq,
    \* history: the driver's best value (fbest) at the end of each iteration,
    \* kept by the runs that look back at it
    bests

cfgVars == << minimising, max_iterations, max_unchanged_iterations,
              min_significant_change, threshold, parallel, n_workers,
              log_to_screen, log_filename, population_based, population_size,
              suggested, dimension, x0, sigma0, boundaries, wave, measure,
              model, call, outcome >>
optVars == << opt_fbest, opt_xbest, told, opt_running, opt_stop >>
runVars == << iteration, evaluations, unchanged_iterations, evaluator,
              fbest, fbest_user, next_message, running, halt_message >>
outVars == << log_last, log_iters, log_final, printed, result >>
evalVars == << pending, inflight, results, order >>
vars == << cfgVars, optVars, runVars, outVars, pc, xs, fs, calls, fired,
           failure, evalVars, seq, bests >>

NoEvaluator == [kind |-> "none", n_workers |-> 0]
NoRow == << >>
NoResult == [kind |-> "none"]
NoFailure == [at |-> "none", exc |-> "none"]
NoCall == [op |-> "none"]
NoOutcome == [kind |-> "none"]
NoWave == [kind |-> "none"]
NoMeasure == [type |-> "none"]
NoModel == [type |-> "none"]

\* Progress reporting cadence (locals of run()).
message_warm_up == 3
message_interval == 20

----------------------------------------------------------------------------
\* The state in which run() is entered: a configuration that the constructor
\* and the setters can produce, and a freshly constructed optimiser.

InitRun ==
    /\ pc = "start"
    /\ opt_fbest = Inf
    /\ told = << >>
    /\ opt_running = FALSE
    /\ opt_stop = "False"
    /\ iteration = 0
    /\ evaluations = 0
    /\ unchanged_iterations = 0
    /\ evaluator = NoEvaluator
    /\ fbest = Inf
    /\ fbest_user = Inf
    /\ next_message = 0
    /\ running = FALSE
    /\ halt_message = "unset"
    /\ xs = << >>
    /\ fs = << >>
    /\ log_last = NoRow
    /\ log_iters = {}
    /\ log_final = NoRow
    /\ printed = NoRow
    /\ result = NoResult
    /\ calls = << >>
    /\ fired = {}
    /\ failure = NoFailure
    /\ pending = {}
    /\ inflight = {}
    /\ results = << >>
    /\ order = << >>
    /\ seq = << >>
    /\ bests = << >>

\* The run is followed for an optimiser that is given as constructed: no
\* call is made on it, or on a transform, outside run().
NoObjects ==
    /\ suggested = 0
    /\ dimension = 0
    /\ x0 = << >>
    /\ sigma0 = << >>
    /\ boundaries = None
    /\ wave = NoWave
    /\ measure = NoMeasure
    /\ model = NoModel
    /\ call = NoCall
    /\ outcome = NoOutcome

Init ==
    /\ minimising \in BOOLEAN
    /\ max_iterations \in MaxIterationsValues
    /\ max_unchanged_iterations \in MaxUnchangedValues
    /\ min_significant_change \in SignificantChangeValues
    /\ threshold \in ThresholdValues
    /\ parallel = FALSE
    /\ n_workers = 1
    /\ log_to_screen = TRUE
    /\ log_filename = None
    /\ population_based \in BOOLEAN
    /\ population_size = IF population_based THEN Some(2) ELSE None
    /\ opt_xbest = 0
    /\ InitRun
    /\ NoObjects

----------------------------------------------------------------------------
\* The size of the batch one ask() returns: 1 for a single-point method,
\* population_size() for a population-based one.
BatchSize == IF population_based THEN population_size[1] ELSE 1

\* The function the evaluator scores points with (self._function): the
\* ErrorMeasure as is, or the LogPDF wrapped so that it is minimised.
Function(x) == IF minimising THEN ErrorMeasure(x) ELSE FNeg(LogPDF(x))

\* A variant of has_stopping_criterion that forgets the threshold.
HasStoppingCriterionNoThreshold ==
    \/ max_iterations # None
    \/ max_unchanged_iterations # None

\* has_stopping_criterion of run().
HasStoppingCriterion ==
    \/ max_iterations # None
    \/ max_unchanged_iterations # None
    \/ threshold # None

\* min(a, b) on integers.
Min(a, b) == IF a < b THEN a ELSE b

\* A variant that uses the configured number of workers as it is.
CreateEvaluatorNoCap ==
    IF parallel
    THEN [kind |-> "parallel", n_workers |-> n_workers]
    ELSE [kind |-> "sequential", n_workers |-> 1]

\* A variant that caps the number of workers at the batch size for every
\* optimiser.
CreateEvaluatorCapsAll ==
    IF parallel
    THEN [kind |-> "parallel", n_workers |-> Min(n_workers, BatchSize)]
    ELSE [kind |-> "sequential", n_workers |-> 1]

\* The evaluator run() creates.
CreateEvaluator ==
    IF parallel
    THEN [kind |-> "parallel",
          n_workers |-> IF population_based
                        THEN Min(n_workers, population_size[1])
                        ELSE n_workers]
    ELSE [kind |-> "sequential", n_workers |-> 1]

\* A variant of the user's value that never flips the sign.
UserValueSameSign(f) == f

\* The user's value of an internal (minimised) best score.
UserValue(f) == IF minimising THEN f ELSE FNeg(f)

\* A variant of logging that looks at the screen setting only.
LoggingScreenOnly == log_to_screen

\* logging of run().
Logging == log_to_screen \/ log_filename # None

\* The locals of run() that the loop reads and writes, as one record.
Locals ==
    [iteration |-> iteration, evaluations |-> evaluations,
     unchanged_iterations |-> unchanged_iterations,
     fbest |-> fbest, fbest_user |-> fbest_user,
     next_message |-> next_message, running |-> running,
     halt_message |-> halt_message, fired |-> fired,
     log_last |-> log_last, log_iters |-> log_iters]

\* The locals as run() sets them before the loop.
StartLocals ==
    [iteration |-> 0, evaluations |-> 0, unchanged_iterations |-> 0,
     fbest |-> Inf, fbest_user |-> UserValue(Inf),
     next_message |-> 0, running |-> TRUE,
     halt_message |-> halt_message, fired |-> fired,
     log_last |-> log_last, log_iters |-> log_iters]

\* run(), up to the start of the loop: without a stopping criterion it
\* raises ValueError, otherwise it creates the evaluator and the locals.
RunStep ==
    /\ pc = "start"
    /\ IF ~HasStoppingCriterion
       THEN /\ pc' = "raised"
            /\ result' = [kind |-> "ValueError"]
            /\ UNCHANGED << runVars >>
       ELSE /\ pc' = "ask"
            /\ iteration' = StartLocals.iteration
            /\ evaluations' = StartLocals.evaluations
            /\ unchanged_iterations' = StartLocals.unchanged_iterations
            /\ evaluator' = CreateEvaluator
            /\ fbest' = StartLocals.fbest
            /\ fbest_user' = StartLocals.fbest_user
            /\ next_message' = StartLocals.next_message
            /\ running' = StartLocals.running
            /\ UNCHANGED << halt_message, result >>
    /\ UNCHANGED << cfgVars, optVars, xs, fs, calls, fired, failure,
                    log_last, log_iters, log_final, printed >>

Run == RunStep /\ UNCHANGED << evalVars, seq, bests >>

\* A variant of the exception handler that swallows the exception and
\* returns the best position and score instead.
HandlerSwallows(at, exc, position) ==
    /\ pc' = "failed"
    /\ failure' = [at |-> at, exc |-> exc]
    /\ printed' = << fbest, position >>
    /\ result' = [kind |-> "return", xbest |-> position, fbest |-> fbest_user]
    /\ calls' = Append(Append(calls, at), "xbest")

\* The exception handler of run(): it prints the best score and the
\* optimiser's best position and raises the exception again.
Handler(at, exc, position) ==
    /\ pc' = "failed"
    /\ failure' = [at |-> at, exc |-> exc]
    /\ printed' = << fbest, position >>
    /\ result' = [kind |-> "raise", exc |-> exc]
    /\ calls' = Append(Append(calls, at), "xbest")

\* xs = self._optimiser.ask()
AskStepUpTo(cap) ==
    /\ pc = "ask"
    /\ iteration <= cap
    /\ xs' \in Batches(BatchSize)
    /\ opt_running' = TRUE
    /\ calls' = Append(calls, "ask")
    /\ pc' = "evaluate"
    /\ UNCHANGED << cfgVars, opt_fbest, opt_xbest, told, opt_stop, runVars,
                    outVars, fs, fired, failure >>

AskStep == AskStepUpTo(MaxIter)

Ask == AskStep /\ UNCHANGED << evalVars, seq, bests >>

AskFails ==
    /\ pc = "ask"
    /\ iteration <= MaxIter
    /\ \E exc \in Exceptions : Handler("ask", exc, opt_xbest)
    /\ UNCHANGED << cfgVars, optVars, runVars, xs, fs, fired,
                    log_last, log_iters, log_final, evalVars, seq, bests >>

\* What evaluate(xs) returns: one score per point, in the order of xs.
EvaluatorResult(batch) == [i \in 1..Len(batch) |-> Function(batch[i])]

\* fs = evaluator.evaluate(xs), as one step.
Evaluate ==
    /\ pc = "evaluate"
    /\ fs' = EvaluatorResult(xs)
    /\ calls' = Append(calls, "evaluate")
    /\ pc' = "tell"
    /\ UNCHANGED << cfgVars, optVars, runVars, outVars, xs, fired, failure,
                    evalVars, seq, bests >>

EvaluateFails ==
    /\ pc = "evaluate"
    /\ \E exc \in Exceptions : Handler("evaluate", exc, opt_xbest)
    /\ UNCHANGED << cfgVars, optVars, runVars, xs, fs, fired,
                    log_last, log_iters, log_final, evalVars, seq, bests >>

\* A variant that hands tell() only the first score of the batch.
TellScoresFirstOnly == SubSeq(fs, 1, 1)

\* A variant that hands tell() the scores in the order in which their
\* evaluations completed.
TellScoresCompletionOrder == [k \in 1..Len(order) |-> fs[order[k]]]

\* The scores run() hands to tell().
TellScores == fs

\* self._optimiser.tell(fs): the optimiser takes the scores and moves to a
\* new best score and position of its own choosing.
TellStepFrom(values) ==
    /\ pc = "tell"
    /\ told' = TellScores
    /\ opt_fbest' \in values
    /\ opt_xbest' \in {opt_xbest} \cup {xs[i] : i \in 1..Len(xs)}
    /\ calls' = Append(calls, "tell")
    /\ pc' = "update"
    /\ UNCHANGED << cfgVars, opt_running, opt_stop, runVars, outVars, xs,
                    fs, fired, failure >>

TellStep == TellStepFrom(ScoreValues)

Tell == TellStep /\ UNCHANGED << evalVars, seq, bests >>

TellFails ==
    /\ pc = "tell"
    /\ \E exc \in Exceptions, position \in {opt_xbest, xs[1]} :
          /\ Handler("tell", exc, position)
          /\ opt_xbest' = position
    /\ told' = TellScores
    /\ UNCHANGED << cfgVars, opt_fbest, opt_running, opt_stop, runVars, xs,
                    fs, fired, log_last, log_iters, log_final, evalVars,
                    seq, bests >>

----------------------------------------------------------------------------
\* The rest of one iteration of the loop, after tell() has returned.

\* A variant that takes every score that is not worse for a new best.
NewBestUnlessWorse(fnew, best) == ~FLt(best, fnew)

\* fnew < fbest: a new best was found.
NewBest(fnew, best) == FLt(fnew, best)

\* np.abs(fnew - fbest) < self._min_significant_change: the improvement does
\* not count as a significant change.
NotSignificant(fnew, best) ==
    FLt(FAbs(FSub(fnew, best)), min_significant_change)

\* The unchanged-iterations counter after an iteration.
NextUnchanged(fnew, best, unchanged) ==
    IF NewBest(fnew, best)
    THEN IF NotSignificant(fnew, best) THEN unchanged + 1 ELSE 0
    ELSE unchanged + 1

\* A variant that takes the optimiser's latest fbest() as the best score.
NextBestLatest(fnew, best) == fnew

\* The best score after an iteration.
NextBest(fnew, best) == IF NewBest(fnew, best) THEN fnew ELSE best

\* The next logging point, chosen when a row was logged at iteration it.
NextMessage(it) ==
    IF it < message_warm_up
    THEN it + 1
    ELSE message_interval * (1 + (it \div message_interval))

\* A variant in which the iteration count never satisfies the check.
MaxIterationsNeverReached(it) == FALSE

\* The stopping criteria, as run() checks them at the end of an iteration.
MaxIterationsReached(it) ==
    max_iterations # None /\ it >= max_iterations[1]

MaxUnchangedReached(unchanged) ==
    max_unchanged_iterations # None
        /\ unchanged >= max_unchanged_iterations[1]

\* A variant of the threshold check that compares the user's value.
ThresholdCrossedUserValue(best) ==
    threshold # None /\ FLt(UserValue(best), threshold[1])

ThresholdCrossed(best) ==
    threshold # None /\ FLt(best, threshold[1])

\* A variant that never takes what stop() returns for an error.
OptimiserErrorIgnored(error) == FALSE

\* if error: what stop() returned is a message.
OptimiserError(error) == error # "False"

\* A variant of the checks in which the first satisfied check keeps the
\* message (an if/elif chain).
HaltMessageFirstWins(c1, c2, c3, c4, old) ==
    IF c1 THEN "max_iterations"
    ELSE IF c2 THEN "max_unchanged_iterations"
    ELSE IF c3 THEN "threshold"
    ELSE IF c4 THEN "error"
    ELSE old

\* A variant of the checks that looks at stop() only when none of the
\* first three checks has decided to halt.
HaltMessageStopsEarly(c1, c2, c3, c4, old) ==
    IF c3 THEN "threshold"
    ELSE IF c2 THEN "max_unchanged_iterations"
    ELSE IF c1 THEN "max_iterations"
    ELSE IF c4 THEN "error"
    ELSE old

\* The halt message left by the four checks: each satisfied check assigns
\* halt_message, in the order max iterations, max unchanged iterations,
\* threshold, optimiser error.
HaltMessage(c1, c2, c3, c4, old) ==
    LET m1 == IF c1 THEN "max_iterations" ELSE old
        m2 == IF c2 THEN "max_unchanged_iterations" ELSE m1
        m3 == IF c3 THEN "threshold" ELSE m2
    IN  IF c4 THEN "error" ELSE m3

\* A variant that counts one evaluation per iteration.
NextEvaluationsByOne(evals, scores) == evals + 1

\* evaluations += len(fs)
NextEvaluations(evals, scores) == evals + Len(scores)

\* The locals after the rest of one iteration: st are the locals before it,
\* fnew the optimiser's fbest(), scores the batch of scores and error the
\* optimiser's stop().
UpdateLocals(st, fnew, scores, error) ==
    LET best1 == NextBest(fnew, st.fbest)
        user1 == IF NewBest(fnew, st.fbest)
                 THEN UserValue(best1)
                 ELSE st.fbest_user
        unchanged1 == NextUnchanged(fnew, st.fbest, st.unchanged_iterations)
        evals1 == NextEvaluations(st.evaluations, scores)
        dolog == Logging /\ st.iteration >= st.next_message
        iter1 == st.iteration + 1
        c1 == MaxIterationsReached(iter1)
        c2 == MaxUnchangedReached(unchanged1)
        c3 == ThresholdCrossed(best1)
        c4 == OptimiserError(error)
    IN  [iteration |-> iter1,
         evaluations |-> evals1,
         unchanged_iterations |-> unchanged1,
         fbest |-> best1,
         fbest_user |-> user1,
         next_message |-> IF dolog
                          THEN NextMessage(st.iteration)
                          ELSE st.next_message,
         running |-> ~(c1 \/ c2 \/ c3 \/ c4),
         halt_message |-> HaltMessage(c1, c2, c3, c4, st.halt_message),
         fired |-> {c \in {"max_iterations", "max_unchanged_iterations",
                           "threshold", "error"} :
                       \/ c = "max_iterations" /\ c1
                       \/ c = "max_unchanged_iterations" /\ c2
                       \/ c = "threshold" /\ c3
                       \/ c = "error" /\ c4},
         log_last |-> IF dolog
                      THEN << st.iteration, evals1, user1 >>
                      ELSE st.log_last,
         log_iters |-> IF dolog
                       THEN st.log_iters \cup {st.iteration}
                       ELSE st.log_iters]

UpdateStep(error) ==
    /\ pc = "update"
    /\ LET new == UpdateLocals(Locals, opt_fbest, fs, error)
       IN  /\ iteration' = new.iteration
           /\ evaluations' = new.evaluations
           /\ unchanged_iterations' = new.unchanged_iterations
           /\ fbest' = new.fbest
           /\ fbest_user' = new.fbest_user
           /\ next_message' = new.next_message
           /\ running' = new.running
           /\ halt_message' = new.halt_message
           /\ fired' = new.fired
           /\ log_last' = new.log_last
           /\ log_iters' = new.log_iters
           /\ pc' = IF new.running THEN "ask" ELSE "halted"
    /\ calls' = Append(Append(calls, "fbest"), "stop")
    /\ opt_stop' = error
    /\ UNCHANGED << cfgVars, opt_fbest, opt_xbest, told, opt_running,
                    evaluator, xs, fs, failure, log_final, printed, result >>

Update ==
    \E error \in StopResults :
        UpdateStep(error) /\ UNCHANGED << evalVars, seq, bests >>

\* After the loop: the final log row, and the return of the best position
\* and the user's value of the best score.
FinishStep ==
    /\ pc = "halted"
    /\ log_final' = IF Logging
                    THEN << iteration, evaluations, fbest_user >>
                    ELSE log_final
    /\ result' = [kind |-> "return", xbest |-> opt_xbest, fbest |-> fbest_user]
    /\ calls' = Append(calls, "xbest")
    /\ pc' = "returned"
    /\ UNCHANGED << cfgVars, optVars, runVars, xs, fs, fired, failure,
                    log_last, log_iters, printed >>

Finish == FinishStep /\ UNCHANGED << evalVars, seq, bests >>

Next ==
    \/ Run
    \/ Ask
    \/ AskFails
    \/ Evaluate
    \/ EvaluateFails
    \/ Tell
    \/ TellFails
    \/ Update
    \/ Finish

Spec == Init /\ [][Next]_vars

----------------------------------------------------------------------------
\* Logging.  run() entered with each setting of set_log_to_screen and
\* set_log_to_file.

\* What set_log_to_file stores: None, or the name of the file.
LogFilenames == {None, Some("log.txt")}

InitLog ==
    /\ minimising \in BOOLEAN
    /\ max_iterations \in {Some(n) : n \in 1..MaxIter}
    /\ max_unchanged_iterations = None
    /\ min_significant_change = Fin(1)
    /\ threshold \in {None, Some(Fin(1))}
    /\ parallel = FALSE
    /\ n_workers = 1
    /\ log_to_screen \in BOOLEAN
    /\ log_filename \in LogFilenames
    /\ population_based = FALSE
    /\ population_size = None
    /\ opt_xbest = 0
    /\ InitRun
    /\ NoObjects

SpecLog == InitLog /\ [][Next]_vars

----------------------------------------------------------------------------
\* The max-unchanged criterion over several iterations.  run() entered with
\* set_max_unchanged_iterations(m, t) as the only criterion, an optimiser
\* whose fbest() moves over a range wider than t, and the best value of
\* each iteration kept in bests.

MaxChange == 3

\* Values the optimiser may report as fbest() in these runs.
ChangeScoreValues == {Fin(n) : n \in 0..(MaxChange + 1)} \cup {Inf, NaN}

InitChange ==
    /\ minimising \in BOOLEAN
    /\ max_iterations = None
    /\ max_unchanged_iterations \in {Some(n) : n \in 0..MaxIter}
    /\ min_significant_change \in {Fin(n) : n \in 1..MaxChange}
    /\ threshold = None
    /\ parallel = FALSE
    /\ n_workers = 1
    /\ log_to_screen = FALSE
    /\ log_filename = None
    /\ population_based = FALSE
    /\ population_size = None
    /\ opt_xbest = 0
    /\ InitRun
    /\ NoObjects

TellChange ==
    TellStepFrom(ChangeScoreValues) /\ UNCHANGED << evalVars, seq, bests >>

\* The rest of the iteration, with the new best value written down.
UpdateRecorded ==
    \E error \in StopResults :
        /\ UpdateStep(error)
        /\ bests' = Append(bests, fbest')
        /\ UNCHANGED << evalVars, seq >>

NextChange ==
    \/ Run
    \/ Ask
    \/ Evaluate
    \/ TellChange
    \/ UpdateRecorded
    \/ Finish

SpecChange == InitChange /\ [][NextChange]_vars

----------------------------------------------------------------------------
\* Termination.  run() entered with the max-iterations criterion enabled,
\* and every call on the optimiser and the evaluator returning.  run() is a
\* sequential loop: whenever one of its steps can be taken it is taken.

InitLive ==
    /\ minimising \in BOOLEAN
    /\ max_iterations \in {Some(n) : n \in 0..MaxIter}
    /\ max_unchanged_iterations \in {None, Some(1)}
    /\ min_significant_change = Fin(1)
    /\ threshold \in ThresholdValues
    /\ parallel = FALSE
    /\ n_workers = 1
    /\ log_to_screen = FALSE
    /\ log_filename = None
    /\ population_based = FALSE
    /\ population_size = None
    /\ opt_xbest = 0
    /\ InitRun
    /\ NoObjects

NextLive ==
    \/ Run
    \/ Ask
    \/ Evaluate
    \/ Tell
    \/ Update
    \/ Finish

SpecLive == InitLive /\ [][NextLive]_vars /\ WF_vars(NextLive)

----------------------------------------------------------------------------
\* Progress reporting over a long run.  run() entered with logging to
\* screen and a number of iterations that goes past the warm-up and past two
\* logging intervals.

MaxLogged == 41

\* Values the optimiser may report as fbest() in these runs.
CadenceScoreValues == {Fin(0), Fin(1)}

InitCadence ==
    /\ minimising = TRUE
    /\ max_iterations \in {Some(message_warm_up + 1), Some(MaxLogged)}
    /\ max_unchanged_iterations = None
    /\ min_significant_change = Fin(1)
    /\ threshold = None
    /\ parallel = FALSE
    /\ n_workers = 1
    /\ log_to_screen = TRUE
    /\ log_filename = None
    /\ population_based = FALSE
    /\ population_size = None
    /\ opt_xbest = 0
    /\ InitRun
    /\ NoObjects

AskCadence ==
    AskStepUpTo(MaxLogged) /\ UNCHANGED << evalVars, seq, bests >>

TellCadence ==
    TellStepFrom(CadenceScoreValues) /\ UNCHANGED << evalVars, seq, bests >>

NextCadence ==
    \/ Run
    \/ AskCadence
    \/ Evaluate
    \/ TellCadence
    \/ Update
    \/ Finish

SpecCadence == InitCadence /\ [][NextCadence]_vars

----------------------------------------------------------------------------
\* Parallel evaluation.  evaluate(xs) is carried out by the evaluator's
\* workers: at most evaluator.n_workers positions of the batch are under
\* evaluation at a time, they complete in any order, and each score is
\* stored at the position of its point.  A SequentialEvaluator is the same
\* with a single worker that takes the positions in order.  Alongside, the
\* record seq follows the same run made with a SequentialEvaluator: the
\* optimiser is deterministic, so from the same state it asks for the same
\* batch and answers the same scores in the same way.

MaxPop == 2

InitPar ==
    /\ minimising \in BOOLEAN
    /\ max_iterations \in {Some(1), Some(2)}
    /\ max_unchanged_iterations = None
    /\ min_significant_change = Fin(1)
    /\ threshold \in {None, Some(Fin(1))}
    /\ parallel \in BOOLEAN
    /\ n_workers \in IF parallel THEN 1..(MaxPop + 1) ELSE {1}
    /\ log_to_screen = TRUE
    /\ log_filename = None
    /\ population_based = TRUE
    /\ population_size \in {Some(n) : n \in 1..MaxPop}
    /\ opt_xbest = 0
    /\ InitRun
    /\ NoObjects

\* The optimiser of the sequential run is in the state of this run's.
SameOptimiser ==
    /\ seq.opt_fbest = opt_fbest
    /\ seq.opt_xbest = opt_xbest
    /\ seq.told = told

ParRun ==
    /\ RunStep
    /\ seq' = [locals |-> StartLocals, opt_fbest |-> opt_fbest,
               opt_xbest |-> opt_xbest, xs |-> xs, told |-> told,
               log_final |-> log_final, result |-> result]
    /\ UNCHANGED << evalVars, bests >>

ParAsk ==
    /\ AskStep
    /\ seq' = [seq EXCEPT !.xs = IF SameOptimiser THEN xs' ELSE @]
    /\ UNCHANGED << evalVars, bests >>

\* evaluate(xs) is entered: every position of the batch is to be evaluated.
Dispatch ==
    /\ pc = "evaluate"
    /\ pending' = 1..Len(xs)
    /\ inflight' = {}
    /\ results' = << >>
    /\ order' = << >>
    /\ calls' = Append(calls, "evaluate")
    /\ pc' = "evaluating"
    /\ UNCHANGED << cfgVars, optVars, runVars, outVars, xs, fs, fired,
                    failure, seq, bests >>

\* A free worker takes a position of the batch.
WorkerTake ==
    /\ pc = "evaluating"
    /\ Cardinality(inflight) < evaluator.n_workers
    /\ \E i \in pending :
          /\ (evaluator.kind = "sequential") => (\A j \in pending : i <= j)
          /\ pending' = pending \ {i}
          /\ inflight' = inflight \cup {i}
    /\ UNCHANGED << cfgVars, optVars, runVars, outVars, pc, xs, fs, calls,
                    fired, failure, results, order, seq, bests >>

\* The scores with the score of position i stored.
StoreScore(scores, i, score) ==
    [j \in DOMAIN scores \cup {i} |-> IF j = i THEN score ELSE scores[j]]

\* A worker completes the evaluation of its point.
WorkerDone ==
    /\ pc = "evaluating"
    /\ \E i \in inflight :
          /\ results' = StoreScore(results, i, Function(xs[i]))
          /\ order' = Append(order, i)
          /\ inflight' = inflight \ {i}
    /\ UNCHANGED << cfgVars, optVars, runVars, outVars, pc, xs, fs, calls,
                    fired, failure, pending, seq, bests >>

\* evaluate(xs) returns once every position has its score.
Return ==
    /\ pc = "evaluating"
    /\ pending = {}
    /\ inflight = {}
    /\ fs' = [i \in 1..Len(xs) |-> results[i]]
    /\ pc' = "tell"
    /\ UNCHANGED << cfgVars, optVars, runVars, outVars, xs, calls, fired,
                    failure, evalVars, seq, bests >>

ParTell ==
    /\ TellStep
    /\ LET scores == EvaluatorResult(seq.xs)
           same == SameOptimiser /\ seq.xs = xs /\ scores = told'
       IN  seq' = [seq EXCEPT !.told = scores,
                              !.opt_fbest = IF same THEN opt_fbest' ELSE @,
                              !.opt_xbest = IF same THEN opt_xbest' ELSE @]
    /\ UNCHANGED << evalVars, bests >>

ParUpdate ==
    \E error \in StopResults :
        /\ UpdateStep(error)
        /\ seq' = [seq EXCEPT !.locals =
                       UpdateLocals(seq.locals, seq.opt_fbest, seq.told, error)]
        /\ UNCHANGED << evalVars, bests >>

ParFinish ==
    /\ FinishStep
    /\ seq' = [seq EXCEPT
                 !.log_final = << seq.locals.iteration,
                                  seq.locals.evaluations,
                                  seq.locals.fbest_user >>,
                 !.result = [kind |-> "return", xbest |-> seq.opt_xbest,
                             fbest |-> seq.locals.fbest_user]]
    /\ UNCHANGED << evalVars, bests >>

NextPar ==
    \/ ParRun
    \/ ParAsk
    \/ Dispatch
    \/ WorkerTake
    \/ WorkerDone
    \/ Return
    \/ ParTell
    \/ ParUpdate
    \/ ParFinish

SpecPar == InitPar /\ [][NextPar]_vars

----------------------------------------------------------------------------
\* Configuration.  The state after Optimisation.__init__, the setters called
\* on it before run(), and run() up to the evaluator it creates (the loop
\* is followed in Spec).

\* The defaults of set_max_iterations and set_max_unchanged_iterations.
DefaultMaxIterations == 10000
DefaultMaxUnchangedIterations == 200

\* A finite float m * 10^e that is off the integer grid; its sign is the
\* sign of m.
Dec(m, e) == [k |-> "fin", v |-> m, e |-> e]

\* Arguments: a bool, or a number n (+ 1/2 when half), so that ints and
\* floats that are not whole both occur.
Bool(b) == [kind |-> "bool", b |-> b, n |-> 0, half |-> FALSE]
Num(n, half) == [kind |-> "num", b |-> FALSE, n |-> n, half |-> half]
Numbers(lo, hi) == {Num(n, half) : n \in lo..hi, half \in BOOLEAN}

\* int(a): truncation towards zero.
int(a) == IF a.half /\ a.n < 0 THEN a.n + 1 ELSE a.n

\* float(a) for a float argument: the value itself.
float(a) == a

\* What the setters may be given.
IterationsArguments(default) ==
    {None, Some(Num(default, FALSE))} \cup {Some(a) : a \in Numbers(0 - 1, 0)}
ChangeArguments == {Fin(0 - 1), Fin(1), Dec(1, 0 - 11), NaN}
ThresholdArguments == {None, Some(Fin(1))}
ParallelArguments == {Bool(TRUE), Bool(FALSE)} \cup Numbers(0, MaxPop + 1)
CpuCounts == 1..(MaxPop + 1)

\* set_max_iterations(iterations) and the iterations argument of
\* set_max_unchanged_iterations: whether the argument is rejected, and what
\* is stored if it is not.
IterationsRejected(iterations) ==
    iterations # None /\ int(iterations[1]) < 0
IterationsStored(iterations) ==
    IF iterations = None THEN None ELSE Some(int(iterations[1]))

\* set_max_unchanged_iterations: the threshold argument.
ThresholdRejected(change) == FLt(float(change), Fin(0))

\* A variant that takes every number >= 0 for a number of workers.
ParallelStoredFromZero(arg, cpu_count) ==
    IF arg.kind = "bool" /\ arg.b
    THEN [parallel |-> TRUE, n_workers |-> cpu_count]
    ELSE IF arg.kind = "num" /\ arg.n >= 0
         THEN [parallel |-> TRUE, n_workers |-> int(arg)]
         ELSE [parallel |-> FALSE, n_workers |-> 1]

\* set_parallel(parallel), on a machine with cpu_count cores.
ParallelStored(arg, cpu_count) ==
    IF arg.kind = "bool" /\ arg.b
    THEN [parallel |-> TRUE, n_workers |-> cpu_count]
    ELSE IF arg.kind = "num" /\ arg.n >= 1
         THEN [parallel |-> TRUE, n_workers |-> int(arg)]
         ELSE [parallel |-> FALSE, n_workers |-> 1]

\* A variant of the setters' default arguments that enables no criterion.
DefaultArgumentsNoCriterion ==
    [iterations |-> None, unchanged |-> None,
     change |-> Dec(1, 0 - 11), parallel |-> Bool(FALSE)]

\* The arguments the setters get when __init__ calls them without any.
DefaultArguments ==
    [iterations |-> Some(Num(DefaultMaxIterations, FALSE)),
     unchanged |-> Some(Num(DefaultMaxUnchangedIterations, FALSE)),
     change |-> Dec(1, 0 - 11), parallel |-> Bool(FALSE)]

Returned(value) == [kind |-> "return", value |-> value]
Raised(exc) == [kind |-> "raise", exc |-> exc]

\* The objects other than the Optimisation, left alone.
objVars == << suggested, dimension, x0, sigma0, boundaries, wave, measure,
             model >>

\* Optimisation.__init__, for an ErrorMeasure or a LogPDF and a method that
\* is single-point or population-based.
InitConf ==
    /\ minimising \in BOOLEAN
    /\ population_based \in BOOLEAN
    /\ population_size \in IF population_based
                            THEN {Some(n) : n \in 1..MaxPop}
                            ELSE {None}
    /\ log_to_screen = TRUE
    /\ log_filename = None
    /\ \E cpu_count \in CpuCounts :
          LET stored == ParallelStored(DefaultArguments.parallel, cpu_count)
          IN  parallel = stored.parallel /\ n_workers = stored.n_workers
    /\ max_iterations = IterationsStored(DefaultArguments.iterations)
    /\ max_unchanged_iterations = IterationsStored(DefaultArguments.unchanged)
    /\ min_significant_change = float(DefaultArguments.change)
    /\ threshold = None
    /\ opt_xbest = 0
    /\ InitRun
    /\ suggested = 0
    /\ dimension = 0
    /\ x0 = << >>
    /\ sigma0 = << >>
    /\ boundaries = None
    /\ wave = NoWave
    /\ measure = NoMeasure
    /\ model = NoModel
    /\ call = [op |-> "__init__", args |-> << >>]
    /\ outcome = NoOutcome

\* What a setter leaves alone besides the fields it sets.
SetterFrame ==
    /\ pc = "start"
    /\ UNCHANGED << minimising, log_to_screen, log_filename, population_based,
                    population_size, objVars, optVars, runVars, outVars, pc,
                    xs, fs, calls, fired, failure, evalVars, seq, bests >>

SetMaxIterations ==
    /\ SetterFrame
    /\ \E iterations \in IterationsArguments(DefaultMaxIterations) :
          /\ call' = [op |-> "set_max_iterations", args |-> << iterations >>]
          /\ IF IterationsRejected(iterations)
             THEN /\ outcome' = Raised("ValueError")
                  /\ UNCHANGED max_iterations
             ELSE /\ outcome' = Returned(None)
                  /\ max_iterations' = IterationsStored(iterations)
    /\ UNCHANGED << max_unchanged_iterations, min_significant_change,
                    threshold, parallel, n_workers >>

\* A variant that stores the count before it checks the threshold.
SetMaxUnchangedIterationsInTurn ==
    /\ SetterFrame
    /\ \E iterations \in IterationsArguments(DefaultMaxUnchangedIterations),
          change \in ChangeArguments :
          /\ call' = [op |-> "set_max_unchanged_iterations",
                      args |-> << iterations, change >>]
          /\ IF IterationsRejected(iterations)
             THEN /\ outcome' = Raised("ValueError")
                  /\ UNCHANGED << max_unchanged_iterations,
                                  min_significant_change >>
             ELSE IF ThresholdRejected(change)
             THEN /\ outcome' = Raised("ValueError")
                  /\ max_unchanged_iterations' = IterationsStored(iterations)
                  /\ UNCHANGED min_significant_change
             ELSE /\ outcome' = Returned(None)
                  /\ max_unchanged_iterations' = IterationsStored(iterations)
                  /\ min_significant_change' = float(change)
    /\ UNCHANGED << max_iterations, threshold, parallel, n_workers >>

SetMaxUnchangedIterations ==
    /\ SetterFrame
    /\ \E iterations \in IterationsArguments(DefaultMaxUnchangedIterations),
          change \in ChangeArguments :
          /\ call' = [op |-> "set_max_unchanged_iterations",
                      args |-> << iterations, change >>]
          /\ IF IterationsRejected(iterations) \/ ThresholdRejected(change)
             THEN /\ outcome' = Raised("ValueError")
                  /\ UNCHANGED << max_unchanged_iterations,
                                  min_significant_change >>
             ELSE /\ outcome' = Returned(None)
                  /\ max_unchanged_iterations' = IterationsStored(iterations)
                  /\ min_significant_change' = float(change)
    /\ UNCHANGED << max_iterations, threshold, parallel, n_workers >>

SetThreshold ==
    /\ SetterFrame
    /\ \E arg \in ThresholdArguments :
          /\ call' = [op |-> "set_threshold", args |-> << arg >>]
          /\ outcome' = Returned(None)
          /\ threshold' = IF arg = None THEN None ELSE Some(float(arg[1]))
    /\ UNCHANGED << max_iterations, max_unchanged_iterations,
                    min_significant_change, parallel, n_workers >>

SetParallel ==
    /\ SetterFrame
    /\ \E arg \in ParallelArguments, cpu_count \in CpuCounts :
          LET stored == ParallelStored(arg, cpu_count)
          IN  /\ call' = [op |-> "set_parallel", args |-> << arg >>]
              /\ outcome' = Returned(None)
              /\ parallel' = stored.parallel
              /\ n_workers' = stored.n_workers
    /\ UNCHANGED << max_iterations, max_unchanged_iterations,
                    min_significant_change, threshold >>

\* The getters max_unchanged_iterations() and parallel(); False is the
\* empty sequence.
MaxUnchangedIterationsGetter ==
    IF max_unchanged_iterations = None
    THEN << None, None >>
    ELSE << max_unchanged_iterations, Some(min_significant_change) >>
ParallelGetter == IF parallel THEN Some(n_workers) ELSE << >>

NextConf ==
    \/ SetMaxIterations
    \/ SetMaxUnchangedIterations
    \/ SetThreshold
    \/ SetParallel
    \/ Run

SpecConf == InitConf /\ [][NextConf]_vars

----------------------------------------------------------------------------
\* run() called a second time on the same Optimisation.  The optimiser is
\* the object __init__ created (self._optimiser): run() creates its locals,
\* its evaluator and its logger anew, and nothing else.

InitAgain ==
    /\ minimising \in BOOLEAN
    /\ max_iterations \in {Some(n) : n \in 1..MaxIter}
    /\ max_unchanged_iterations = None
    /\ min_significant_change = Fin(1)
    /\ threshold \in ThresholdValues
    /\ parallel = FALSE
    /\ n_workers = 1
    /\ log_to_screen = TRUE
    /\ log_filename = None
    /\ population_based = FALSE
    /\ population_size = None
    /\ opt_xbest = 0
    /\ InitRun
    /\ NoObjects

RunAgain ==
    /\ pc = "returned"
    /\ call = NoCall
    /\ call' = [op |-> "run", args |-> << >>]
    /\ pc' = "ask"
    /\ iteration' = StartLocals.iteration
    /\ evaluations' = StartLocals.evaluations
    /\ unchanged_iterations' = StartLocals.unchanged_iterations
    /\ evaluator' = CreateEvaluator
    /\ fbest' = StartLocals.fbest
    /\ fbest_user' = StartLocals.fbest_user
    /\ next_message' = StartLocals.next_message
    /\ running' = StartLocals.running
    /\ halt_message' = "unset"
    /\ fired' = {}
    /\ log_last' = NoRow
    /\ log_iters' = {}
    /\ log_final' = NoRow
    /\ result' = NoResult
    /\ UNCHANGED << minimising, max_iterations, max_unchanged_iterations,
                    min_significant_change, threshold, parallel, n_workers,
                    log_to_screen, log_filename, population_based,
                    population_size, objVars, outcome, optVars, xs, fs,
                    calls, failure, printed, evalVars, seq, bests >>

NextAgain ==
    \/ Run
    \/ Ask
    \/ Evaluate
    \/ Tell
    \/ Update
    \/ Finish
    \/ RunAgain

SpecAgain == InitAgain /\ [][NextAgain]_vars

----------------------------------------------------------------------------
\* run() driving an optimiser whose fbest() is never NaN and never goes up
\* from one tell() to the next, in a first and in a second run().

\* self._optimiser.tell(fs), the optimiser moving to a best score that is
\* not NaN and not above the one it had.
TellSteady ==
    /\ TellStepFrom({f \in ScoreValues : f # NaN /\ ~FLt(opt_fbest, f)})
    /\ UNCHANGED << evalVars, seq, bests >>

NextSteady ==
    \/ Run
    \/ Ask
    \/ Evaluate
    \/ TellSteady
    \/ Update
    \/ Finish
    \/ RunAgain

SpecSteady == InitAgain /\ [][NextSteady]_vars

----------------------------------------------------------------------------
\* PopulationBasedOptimiser: the population size of a constructed optimiser,
\* before and after it starts running.

MaxSuggested == 4
MaxMultiple == 3

\* Everything that belongs to an Optimisation and its run().
restVars == << minimising, max_iterations, max_unchanged_iterations,
               min_significant_change, threshold, parallel, n_workers,
               log_to_screen, log_filename, opt_fbest, opt_xbest, told,
               opt_stop, runVars, outVars, pc, xs, fs, calls, fired, failure,
               evalVars, seq, bests >>

\* No Optimisation has been constructed around the object.
NoOptimisation ==
    /\ minimising = TRUE
    /\ max_iterations = None
    /\ max_unchanged_iterations = None
    /\ min_significant_change = Fin(1)
    /\ threshold = None
    /\ parallel = FALSE
    /\ n_workers = 1
    /\ log_to_screen = TRUE
    /\ log_filename = None
    /\ opt_xbest = 0
    /\ InitRun

\* An argument that is no number: a string such as 'many'.
Text == [kind |-> "str", b |-> FALSE, n |-> 0, half |-> FALSE]

PopulationArguments ==
    {None, Some(Text)} \cup {Some(a) : a \in Numbers(0 - 1, MaxPop)}
MultipleArguments ==
    {None} \cup {Some(a) : a \in Numbers(0 - 1, MaxMultiple)}

\* PopulationBasedOptimiser.__init__, for an algorithm whose heuristic
\* _suggested_population_size() gives any positive integer.
InitPop ==
    /\ NoOptimisation
    /\ population_based = TRUE
    /\ suggested \in 1..MaxSuggested
    /\ population_size = Some(suggested)
    /\ dimension = 0
    /\ x0 = << >>
    /\ sigma0 = << >>
    /\ boundaries = None
    /\ wave = NoWave
    /\ measure = NoMeasure
    /\ model = NoModel
    /\ call = [op |-> "__init__", args |-> << >>]
    /\ outcome = NoOutcome

\* A variant of set_population_size that does not ask running().
SetPopulationSizeWhileRunning(is_running, arg, stored) ==
    IF arg # None /\ arg[1].kind = "str"
    THEN [outcome |-> Raised("ValueError"), population_size |-> stored]
    ELSE IF arg # None /\ int(arg[1]) < 1
         THEN [outcome |-> Raised("ValueError"), population_size |-> stored]
         ELSE [outcome |-> Returned(None),
               population_size |-> IF arg = None THEN None
                                   ELSE Some(int(arg[1]))]

\* set_population_size(arg) on an optimiser whose running() is is_running
\* and whose stored population size is stored: what the call does and what
\* is stored after it.  int() raises ValueError for a string that is no
\* number.
SetPopulationSizeResult(is_running, arg, stored) ==
    IF is_running
    THEN [outcome |-> Raised("Exception"), population_size |-> stored]
    ELSE IF arg # None /\ arg[1].kind = "str"
         THEN [outcome |-> Raised("ValueError"), population_size |-> stored]
         ELSE IF arg # None /\ int(arg[1]) < 1
              THEN [outcome |-> Raised("ValueError"),
                    population_size |-> stored]
              ELSE [outcome |-> Returned(None),
                    population_size |-> IF arg = None THEN None
                                        ELSE Some(int(arg[1]))]

SetPopulationSize ==
    /\ \E arg \in PopulationArguments :
          LET after == SetPopulationSizeResult(opt_running, arg,
                                               population_size)
          IN  /\ call' = [op |-> "set_population_size", args |-> << arg >>]
              /\ outcome' = after.outcome
              /\ population_size' = after.population_size
    /\ UNCHANGED << restVars, opt_running, population_based, objVars >>

\* A variant that rounds up from the floor of p / n.
RoundedUpFromFloor(p, round_up_to_multiple_of) ==
    IF round_up_to_multiple_of # None
    THEN LET n == int(round_up_to_multiple_of[1])
         IN  IF n > 1 THEN n * ((p \div n) + 1) ELSE p
    ELSE p

\* The rounding of suggested_population_size, for the heuristic value p.
RoundedUp(p, round_up_to_multiple_of) ==
    IF round_up_to_multiple_of # None
    THEN LET n == int(round_up_to_multiple_of[1])
         IN  IF n > 1 THEN n * (((p - 1) \div n) + 1) ELSE p
    ELSE p

SuggestedPopulationSize ==
    /\ \E m \in MultipleArguments :
          /\ call' = [op |-> "suggested_population_size", args |-> << m >>]
          /\ outcome' = Returned(RoundedUp(suggested, m))
    /\ UNCHANGED << restVars, opt_running, population_based, population_size,
                    objVars >>

\* population_size()
PopulationSize ==
    /\ call' = [op |-> "population_size", args |-> << >>]
    /\ outcome' = Returned(population_size)
    /\ UNCHANGED << restVars, opt_running, population_based, population_size,
                    objVars >>

\* The optimiser starts running (its first ask()): running() is true from
\* then on, and population_size() returns the size in use.
StartRunning ==
    /\ ~opt_running
    /\ opt_running' = TRUE
    /\ population_size' = IF population_size = None
                          THEN Some(suggested)
                          ELSE population_size
    /\ call' = [op |-> "ask", args |-> << >>]
    /\ outcome' = Returned(None)
    /\ UNCHANGED << minimising, max_iterations, max_unchanged_iterations,
                    min_significant_change, threshold, parallel, n_workers,
                    log_to_screen, log_filename, opt_fbest, opt_xbest, told,
                    opt_stop, runVars, outVars, pc, xs, fs, calls, fired, failure,
                    evalVars, seq, bests, population_based, objVars >>

NextPop ==
    \/ SetPopulationSize
    \/ SuggestedPopulationSize
    \/ PopulationSize
    \/ StartRunning

SpecPop == InitPop /\ [][NextPop]_vars

----------------------------------------------------------------------------
\* TriangleWaveTransform.  Its arithmetic is numpy's, on binary floating
\* point numbers: every result is rounded to the nearest number with
\* Precision significant bits, ties to even.  The numbers followed here are
\* the integers among them, and one coordinate (numpy applies the transform
\* to each coordinate on its own).

Precision == 4
MaxBound == 16
MaxX == 40

Abs(n) == IF n < 0 THEN 0 - n ELSE n

\* The distance between neighbouring floating point numbers at magnitude a.
RECURSIVE Spacing(_)
Spacing(a) == IF a < 2 ^ Precision THEN 1 ELSE 2 * Spacing(a \div 2)

\* The floating point number nearest to n.
Round(n) ==
    LET a == Abs(n)
        s == Spacing(a)
        q == a \div s
        r == a % s
        up == (2 * r > s) \/ (2 * r = s /\ q % 2 = 1)
        m == IF up THEN (q + 1) * s ELSE q * s
    IN  IF n < 0 THEN 0 - m ELSE m

Floats(lo, hi) == {n \in lo..hi : Round(n) = n}

\* C's fmod(a, b) for b > 0: exact, with the sign of a.
fmod(a, b) == IF a < 0 THEN 0 - ((0 - a) % b) ELSE a % b

\* np.remainder(a, b) for b > 0: fmod, moved into [0, b] by adding b to a
\* negative result.
remainder(a, b) ==
    LET mod == fmod(a, b)
    IN  IF mod < 0 THEN Round(mod + b) ELSE mod

\* TriangleWaveTransform.__init__(boundaries)
Transform(bounds) ==
    LET range == Round(bounds.upper - bounds.lower)
    IN  [kind |-> "TriangleWaveTransform",
         lower |-> bounds.lower, upper |-> bounds.upper,
         range |-> range, range2 |-> Round(2 * range)]

\* TriangleWaveTransform.__call__(x) on the transform w.
TriangleWave(w, x) ==
    LET y == remainder(Round(x - w.lower), w.range2)
        z == remainder(y, w.range)
    IN  IF y < w.range THEN Round(w.lower + z) ELSE Round(w.upper - z)

\* Boundaries with lower < upper.
BoundariesValues ==
    {[lower |-> l, upper |-> u] : l, u \in Floats(0 - MaxBound, MaxBound)}
        \ {b \in [lower : Floats(0 - MaxBound, MaxBound),
                  upper : Floats(0 - MaxBound, MaxBound)] :
              b.lower >= b.upper}

InitWave ==
    /\ NoOptimisation
    /\ population_based = FALSE
    /\ population_size = None
    /\ suggested = 0
    /\ dimension = 0
    /\ x0 = << >>
    /\ sigma0 = << >>
    /\ boundaries = None
    /\ wave \in {Transform(b) : b \in BoundariesValues}
    /\ measure = NoMeasure
    /\ model = NoModel
    /\ call = [op |-> "__init__", args |-> << >>]
    /\ outcome = NoOutcome

Call ==
    /\ \E x \in Floats(0 - MaxX, MaxX) :
          /\ call' = [op |-> "__call__", args |-> << x >>]
          /\ outcome' = Returned(TriangleWave(wave, x))
    /\ UNCHANGED << restVars, opt_running, population_based, population_size,
                    objVars >>

NextWave == Call

SpecWave == InitWave /\ [][NextWave]_vars

----------------------------------------------------------------------------
\* Optimiser.__init__(x0, sigma0, boundaries).  A finite float Fin(v) stands
\* for the number v / Unit here, so that (1 / 6) * range and (1 / 3) * |x0|
\* are exact on the values followed: boundaries at whole numbers, starting
\* points at halves.

Unit == 6
MaxDimension == 2

One == Fin(Unit)

\* a <= b on floats: False whenever either side is NaN.
FLe(a, b) == a.k # "nan" /\ b.k # "nan" /\ ~FLt(b, a)

\* (1 / den) * a on floats.
Times(den, a) == IF a.k = "fin" THEN Fin(a.v \div den) ELSE a

RECURSIVE SeqsOf(_, _)
SeqsOf(S, n) ==
    IF n = 0 THEN {<< >>}
    ELSE {Append(s, e) : s \in SeqsOf(S, n - 1), e \in S}

VectorsOf(S, lo, hi) == UNION {SeqsOf(S, n) : n \in lo..hi}

\* The starting points: lists of floats of length 0 to MaxDimension.
X0Arguments ==
    VectorsOf({Fin(h * (Unit \div 2)) : h \in (0 - 1)..2} \cup {NaN},
              0, MaxDimension)

Scalar(f) == [kind |-> "scalar", value |-> f]
Vector(s) == [kind |-> "vector", values |-> s]

\* The values of the argument sigma0: None, a scalar or a list.
Sigma0Arguments ==
    {None}
      \cup {Some(Scalar(f)) :
              f \in {Fin(0 - Unit), Fin(0), Fin(Unit), Fin(2 * Unit), NaN}}
      \cup {Some(Vector(s)) :
              s \in VectorsOf({Fin(0), Fin(Unit), Fin(2 * Unit), NaN},
                              1, MaxDimension)}

\* Boundaries objects: lower < upper in every dimension.
Box(l, u) == [lower |-> l, upper |-> u]

Sides == {Fin(0 - Unit), Fin(0), Fin(2 * Unit)}

Boxes ==
    {c \in {Box(l, u) : l, u \in VectorsOf(Sides, 1, MaxDimension)} :
        /\ Len(c.lower) = Len(c.upper)
        /\ \A i \in 1..Len(c.lower) : FLt(c.lower[i], c.upper[i])}

BoundariesArguments == {None} \cup {Some(b) : b \in Boxes}

\* boundaries.n_parameters()
n_parameters(b) == Len(b.lower)

\* boundaries.check(x): x lies within the boundaries.
check(b, x) ==
    \A i \in 1..Len(x) : FLe(b.lower[i], x[i]) /\ FLt(x[i], b.upper[i])

\* boundaries.range()
range(b) == [i \in 1..Len(b.lower) |-> FSub(b.upper[i], b.lower[i])]

\* The guess from the starting point, without the 1 added for a zero.
SigmaFromX0NoFix(x) == [i \in 1..Len(x) |-> Times(3, FAbs(x[i]))]

\* (1 / 3) * np.abs(x0), and 1 added where the result is zero.
SigmaFromX0(x) ==
    [i \in 1..Len(x) |->
        LET guess == Times(3, FAbs(x[i]))
        IN  IF guess = Fin(0) THEN One ELSE guess]

\* A variant that does not ask the boundaries whether x0 lies within them.
InitRaisesUnchecked(x, s, b) ==
    IF Len(x) < 1 THEN TRUE
    ELSE IF b # None /\ n_parameters(b[1]) # Len(x) THEN TRUE
    ELSE IF s = None THEN FALSE
    ELSE IF s[1].kind = "scalar" THEN FLe(float(s[1].value), Fin(0))
    ELSE IF Len(s[1].values) # Len(x) THEN TRUE
    ELSE \E i \in 1..Len(x) : FLe(s[1].values[i], Fin(0))

\* The ValueErrors of __init__, in the order of its checks.
InitRaises(x, s, b) ==
    IF Len(x) < 1 THEN TRUE
    ELSE IF b # None /\ n_parameters(b[1]) # Len(x) THEN TRUE
    ELSE IF b # None /\ ~check(b[1], x) THEN TRUE
    ELSE IF s = None THEN FALSE
    ELSE IF s[1].kind = "scalar" THEN FLe(float(s[1].value), Fin(0))
    ELSE IF Len(s[1].values) # Len(x) THEN TRUE
    ELSE \E i \in 1..Len(x) : FLe(s[1].values[i], Fin(0))

\* self._sigma0 as __init__ leaves it.
InitSigma0(x, s, b) ==
    IF s = None
    THEN IF b # None
         THEN [i \in 1..Len(x) |-> Times(6, range(b[1])[i])]
         ELSE SigmaFromX0(x)
    ELSE IF s[1].kind = "scalar"
         THEN [i \in 1..Len(x) |-> float(s[1].value)]
         ELSE s[1].values

InitOpt ==
    /\ NoOptimisation
    /\ population_based = FALSE
    /\ population_size = None
    /\ NoObjects

Construct ==
    /\ call = NoCall
    /\ \E x \in X0Arguments, s \in Sigma0Arguments, b \in BoundariesArguments :
          /\ call' = [op |-> "__init__", args |-> << x, s, b >>]
          /\ IF InitRaises(x, s, b)
             THEN /\ outcome' = Raised("ValueError")
                  /\ UNCHANGED << dimension, x0, sigma0, boundaries >>
             ELSE /\ outcome' = Returned(None)
                  /\ dimension' = Len(x)
                  /\ x0' = x
                  /\ sigma0' = InitSigma0(x, s, b)
                  /\ boundaries' = b
    /\ UNCHANGED << restVars, opt_running, population_based, population_size,
                    suggested, wave, measure, model >>

NextOpt == Construct

SpecOpt == InitOpt /\ [][NextOpt]_vars

\* curve_fit and fmin.  Each builds an ErrorMeasure around f, constructs an
\* Optimisation, calls its setters with the arguments threshold, max_iter,
\* max_unchanged (left at its default) and verbose, runs it and returns.

InitFit ==
    /\ \E wrapper \in {"curve_fit", "fmin"},
          arg \in [threshold : {None, Some(Fin(1))},
                   max_iter : {None} \cup {Some(n) : n \in 1..MaxIter},
                   verbose : BOOLEAN] :
          /\ call = [op |-> wrapper, args |-> arg]
          /\ threshold = arg.threshold
          /\ max_iterations = arg.max_iter
          /\ log_to_screen = arg.verbose
    /\ minimising = TRUE
    /\ max_unchanged_iterations = Some(DefaultMaxUnchangedIterations)
    /\ min_significant_change = Dec(1, 0 - 11)
    /\ parallel = FALSE
    /\ n_workers = 1
    /\ log_filename = None
    /\ population_based = FALSE
    /\ population_size = None
    /\ opt_xbest = 0
    /\ InitRun
    /\ suggested = 0
    /\ dimension = 0
    /\ x0 = << >>
    /\ sigma0 = << >>
    /\ boundaries = None
    /\ wave = NoWave
    /\ measure = NoMeasure
    /\ model = NoModel
    /\ outcome = NoOutcome

\* popt, fopt = opt.run(); return popt
CurveFitReturn ==
    /\ pc = "returned"
    /\ call.op = "curve_fit"
    /\ outcome = NoOutcome
    /\ outcome' = Returned([shape |-> "position", xbest |-> result.xbest])
    /\ UNCHANGED << restVars, opt_running, population_based, population_size,
                    objVars, call >>

\* return opt.run()
FminReturn ==
    /\ pc = "returned"
    /\ call.op = "fmin"
    /\ outcome = NoOutcome
    /\ outcome' = Returned([shape |-> "tuple", xbest |-> result.xbest,
                            fbest |-> result.fbest])
    /\ UNCHANGED << restVars, opt_running, population_based, population_size,
                    objVars, call >>

NextFit ==
    \/ Next
    \/ CurveFitReturn
    \/ FminReturn

SpecFit == InitFit /\ [][NextFit]_vars

----------------------------------------------------------------------------
\* Error measures.  The objects are those of tests/test_error_measures.py:
\* error measures, LogPDFs, and things that are neither; each evaluates to
\* the float values[x + 1] at the point x.

MaxErrors == 2

Object(type, n, values) ==
    [type |-> type, n_parameters |-> n, values |-> values]

ErrorMeasures ==
    {Object("ErrorMeasure", n, v) :
        n \in {3, 6},
        v \in {<< Fin(1), Fin(2) >>, << Inf, Fin(0) >>,
               << NegInf, Fin(1) >>, << NaN, Fin(3) >>}}

LogPDFs ==
    {Object("LogPDF", 3, v) : v \in {<< Fin(10), Fin(10) >>,
                                     << Fin(0 - 1), NegInf >>}}

Others == {Object("Problem", 3, << >>), Object("int", 0, << >>)}

\* The arguments of SumOfErrors: a list of measures, and None or a list of
\* weights (numbers, or something that is no number).
ErrorLists == VectorsOf(ErrorMeasures \cup Others, 0, MaxErrors)

WeightLists ==
    {None} \cup
    {Some(w) : w \in VectorsOf({Fin(0), Fin(1), Fin(2),
                                Object("ErrorMeasure", 3,
                                       << Fin(1), Fin(2) >>)},
                               0, MaxErrors)}

\* a * b on floats: 0 * inf is NaN.
FMul(a, b) ==
    LET sign(c) == CASE c.k = "inf" -> 1
                     [] c.k = "ninf" -> 0 - 1
                     [] OTHER -> IF c.v > 0 THEN 1
                                 ELSE IF c.v < 0 THEN 0 - 1 ELSE 0
    IN  CASE a.k = "nan" \/ b.k = "nan" -> NaN
          [] a.k = "fin" /\ b.k = "fin" -> Fin(a.v * b.v)
          [] sign(a) * sign(b) > 0 -> Inf
          [] sign(a) * sign(b) < 0 -> NegInf
          [] OTHER -> NaN

\* pints.ProbabilityBasedError(log_pdf)
ProbabilityBasedError(log_pdf) ==
    [type |-> "ProbabilityBasedError",
     n_parameters |-> log_pdf.n_parameters, log_pdf |-> log_pdf]

\* The errors pints.SumOfErrors(errors, weights) may raise.
SumOfErrorsRaises(errors, weights) ==
    {exc \in {"ValueError", "TypeError"} :
        \/ /\ exc = "ValueError"
           /\ \/ Len(errors) < 1
              \/ \E j \in DOMAIN errors : errors[j].type # "ErrorMeasure"
              \/ \E j \in DOMAIN errors :
                    errors[j].n_parameters # errors[1].n_parameters
              \/ weights # None /\ Len(weights[1]) # Len(errors)
        \/ /\ exc = "TypeError"
           /\ weights # None
           /\ \E j \in DOMAIN weights[1] : "k" \notin DOMAIN weights[1][j]}

\* pints.SumOfErrors(errors, weights), once its arguments are accepted.
SumOfErrors(errors, weights) ==
    [type |-> "SumOfErrors", n_parameters |-> errors[1].n_parameters,
     errors |-> errors,
     weights |-> IF weights = None
                 THEN [i \in DOMAIN errors |-> Fin(1)]
                 ELSE weights[1]]

\* A variant of the sum that leaves the weights out.
RECURSIVE UnweightedSum(_, _, _, _)
UnweightedSum(errors, weights, x, i) ==
    IF i = 0 THEN Fin(0)
    ELSE FSub(UnweightedSum(errors, weights, x, i - 1),
              FNeg(errors[i].values[x + 1]))

\* SumOfErrors.__call__(x): the total after the first i measures.
RECURSIVE WeightedSum(_, _, _, _)
WeightedSum(errors, weights, x, i) ==
    IF i = 0 THEN Fin(0)
    ELSE FSub(WeightedSum(errors, weights, x, i - 1),
              FNeg(FMul(weights[i], errors[i].values[x + 1])))

\* measure(x)
Value(m, x) ==
    CASE m.type = "ProbabilityBasedError" -> FNeg(m.log_pdf.values[x + 1])
      [] m.type = "SumOfErrors" ->
            WeightedSum(m.errors, m.weights, x, Len(m.errors))
      [] OTHER -> m.values[x + 1]

\* A variant of Optimisation.__init__ that stores every function as it is.
WrappedFunctionAsIs(function) == function

\* self._function as Optimisation.__init__ stores it.
WrappedFunction(function) ==
    IF function.type # "LogPDF" THEN function
    ELSE ProbabilityBasedError(function)

InitErr ==
    /\ NoOptimisation
    /\ population_based = FALSE
    /\ population_size = None
    /\ NoObjects

\* What the operations on error measures leave alone.
MeasureFrame ==
    UNCHANGED << max_iterations, max_unchanged_iterations,
                 min_significant_change, threshold, parallel, n_workers,
                 log_to_screen, log_filename, population_based,
                 population_size, suggested, dimension, x0, sigma0,
                 boundaries, wave, model, optVars, runVars, outVars, pc, xs,
                 fs,
                 calls, fired, failure, evalVars, seq, bests >>

NewProbabilityBasedError ==
    /\ call = NoCall
    /\ \E obj \in LogPDFs \cup ErrorMeasures \cup Others :
          /\ call' = [op |-> "ProbabilityBasedError", args |-> << obj >>]
          /\ IF obj.type = "LogPDF"
             THEN /\ measure' = ProbabilityBasedError(obj)
                  /\ outcome' = Returned(None)
             ELSE /\ outcome' = Raised("ValueError")
                  /\ UNCHANGED measure
    /\ UNCHANGED minimising
    /\ MeasureFrame

NewSumOfErrors ==
    /\ call = NoCall
    /\ \E errors \in ErrorLists, weights \in WeightLists :
          /\ call' = [op |-> "SumOfErrors", args |-> << errors, weights >>]
          /\ IF SumOfErrorsRaises(errors, weights) # {}
             THEN /\ \E exc \in SumOfErrorsRaises(errors, weights) :
                        outcome' = Raised(exc)
                  /\ UNCHANGED measure
             ELSE /\ measure' = SumOfErrors(errors, weights)
                  /\ outcome' = Returned(None)
    /\ UNCHANGED minimising
    /\ MeasureFrame

\* Optimisation.__init__(function, ...), up to the function it stores.
NewOptimisation ==
    /\ call = NoCall
    /\ \E function \in LogPDFs \cup ErrorMeasures :
          /\ call' = [op |-> "Optimisation", args |-> << function >>]
          /\ minimising' = (function.type # "LogPDF")
          /\ measure' = WrappedFunction(function)
          /\ outcome' = Returned(None)
    /\ MeasureFrame

CallMeasure ==
    /\ measure # NoMeasure
    /\ \E x \in Points :
          /\ call' = [op |-> "__call__", args |-> << x >>]
          /\ outcome' = Returned(Value(measure, x))
    /\ UNCHANGED << minimising, measure >>
    /\ MeasureFrame

NParameters ==
    /\ measure # NoMeasure
    /\ call' = [op |-> "n_parameters", args |-> << >>]
    /\ outcome' = Returned(Fin(measure.n_parameters))
    /\ UNCHANGED << minimising, measure >>
    /\ MeasureFrame

NextErr ==
    \/ NewProbabilityBasedError
    \/ NewSumOfErrors
    \/ NewOptimisation
    \/ CallMeasure
    \/ NParameters

SpecErr == InitErr /\ [][NextErr]_vars

----------------------------------------------------------------------------
\* StochasticDegradationModel.  A molecule count Fin(v) stands for v / 2
\* here, so that counts that are no whole numbers occur; times are whole
\* numbers.  The time to the next reaction, -ln(r) / (a * k) for a random r,
\* is any positive time.

MaxCount == 2
MaxTau == 2
MaxTime == 3
MaxTimes == 2

\* The count 1.
OneMolecule == Fin(2)

\* What float(initial_molecule_count) can be.
CountArguments ==
    {Fin(v) : v \in (0 - 1)..(2 * MaxCount)} \cup {Inf, NaN}

\* The rate constants k given to simulate.
RateArguments == {Fin(0 - 2), Fin(0), Fin(2)}

\* The times given to simulate, in any order.
TimesArguments == VectorsOf((0 - 1)..MaxTime, 0, MaxTimes)

\* interp1d(self._time, self._mol_count, kind='previous') at x: the count
\* recorded at the latest reaction time that is not after x.
Previous(m, x) ==
    LET i == CHOOSE j \in DOMAIN m.time :
                 /\ m.time[j] <= x
                 /\ \A l \in DOMAIN m.time : m.time[l] <= x => l <= j
    IN  m.mol_count[i]

\* The values simulate returns: the counts at the times up to the last
\* reaction, followed by a zero for every later time.
Values(m, times) ==
    LET last == m.time[Len(m.time)]
        UpToLast(x) == x <= last
        Later(x) == x > last
        early == SelectSeq(times, UpToLast)
        late == SelectSeq(times, Later)
    IN  [i \in 1..Len(early) |-> Previous(m, early[i])]
            \o [i \in 1..Len(late) |-> Fin(0)]

InitDeg ==
    /\ NoOptimisation
    /\ population_based = FALSE
    /\ population_size = None
    /\ NoObjects

\* What the model's operations leave alone.
ModelFrame ==
    UNCHANGED << restVars, opt_running, population_based, population_size,
                 suggested, dimension, x0, sigma0, boundaries, wave,
                 measure >>

\* StochasticDegradationModel(initial_molecule_count)
NewModel ==
    /\ call = NoCall
    /\ \E n \in CountArguments :
          /\ call' = [op |-> "__init__", args |-> << n >>]
          /\ IF FLt(float(n), Fin(0))
             THEN /\ outcome' = Raised("ValueError")
                  /\ UNCHANGED model
             ELSE /\ outcome' = Returned(None)
                  /\ model' = [type |-> "StochasticDegradationModel",
                               n0 |-> float(n), pc |-> "idle",
                               a |-> Fin(0), t |-> 0,
                               mol_count |-> << >>, time |-> << >>]
    /\ ModelFrame

\* simulate(parameters, times), up to the start of the loop.
Simulate ==
    /\ model # NoModel
    /\ model.pc = "idle"
    /\ call.op = "__init__"
    /\ \E k \in RateArguments, times \in TimesArguments :
          /\ call' = [op |-> "simulate", args |-> << k, times >>]
          /\ IF FLe(k, Fin(0)) \/ \E i \in DOMAIN times : times[i] < 0
             THEN /\ outcome' = Raised("ValueError")
                  /\ UNCHANGED model
             ELSE IF model.n0 = Fin(0)
             THEN /\ outcome' = Returned([i \in DOMAIN times |-> Fin(0)])
                  /\ model' = [model EXCEPT !.pc = "done"]
             ELSE /\ outcome' = NoOutcome
                  /\ model' = [model EXCEPT !.pc = "loop",
                                            !.t = 0,
                                            !.a = model.n0,
                                            !.mol_count = << model.n0 >>,
                                            !.time = << 0 >>]
    /\ ModelFrame

\* One pass of the loop 'while a > 0'.  A count that never reaches 0 is
\* followed for MaxCount + 1 reactions.
React ==
    /\ model # NoModel
    /\ model.pc = "loop"
    /\ FLt(Fin(0), model.a)
    /\ Len(model.time) <= MaxCount + 1
    /\ \E tau \in 1..MaxTau :
          LET t == model.t + tau
              a == FSub(model.a, OneMolecule)
          IN  model' = [model EXCEPT !.t = t,
                                     !.a = a,
                                     !.time = Append(@, t),
                                     !.mol_count = Append(@, a)]
    /\ UNCHANGED << call, outcome >>
    /\ ModelFrame

\* After the loop: the values at the requested times are returned.
Interpolate ==
    /\ model # NoModel
    /\ model.pc = "loop"
    /\ ~FLt(Fin(0), model.a)
    /\ outcome' = Returned(Values(model, call.args[2]))
    /\ model' = [model EXCEPT !.pc = "done"]
    /\ UNCHANGED call
    /\ ModelFrame

NextDeg ==
    \/ NewModel
    \/ Simulate
    \/ React
    \/ Interpolate

SpecDeg == InitDeg /\ [][NextDeg]_vars

----------------------------------------------------------------------------
\* Properties of Optimisation.run.

\* The order in which run() checks the stopping criteria.
CheckOrder == << "max_iterations", "max_unchanged_iterations", "threshold",
                 "error" >>
Rank(c) == CHOOSE i \in 1..Len(CheckOrder) : CheckOrder[i] = c
FirstFired == CHOOSE c \in fired : \A d \in fired : Rank(c) <= Rank(d)
LastFired == CHOOSE c \in fired : \A d \in fired : Rank(d) <= Rank(c)
Halted == pc \in {"halted", "returned"}
InLoop == pc \in {"ask", "evaluate", "tell", "update"}

\* The number of calls of one name made so far.
NumCalls(name) == Cardinality({i \in DOMAIN calls : calls[i] = name})

\* C1, as stated: when several stopping criteria are satisfied in the same
\* iteration, the halt message kept is that of the first satisfied criterion
\* in the check order.
C1_FirstSatisfiedKeepsMessage ==
    Halted => halt_message = FirstFired

\* C1, amended: the halt message kept is that of the last satisfied
\* criterion in the check order max iterations, max unchanged iterations,
\* threshold, optimiser stop().
C1_LastSatisfiedKeepsMessage ==
    Halted => (fired # {} /\ halt_message = LastFired)

C1_Witness ==
    /\ pc = "returned"
    /\ {"max_iterations", "threshold"} \subseteq fired
    /\ halt_message = "threshold"

\* C2: run() raises ValueError exactly when max iterations, max unchanged
\* iterations and threshold are all None, and then before an evaluator is
\* created and before any call of ask, evaluate or tell; with a criterion
\* enabled it creates the evaluator and enters the loop.
C2_FailsFastWithoutCriterion ==
    /\ (pc # "start") =>
          ((pc = "raised") <=> (/\ max_iterations = None
                                /\ max_unchanged_iterations = None
                                /\ threshold = None))
    /\ (result.kind = "ValueError") <=> (pc = "raised")
    /\ (pc = "raised") => (evaluator = NoEvaluator /\ calls = << >>)
    /\ (pc \notin {"start", "raised"}) =>
          (evaluator # NoEvaluator /\ (InLoop \/ Len(calls) > 0))

C2_Witness ==
    /\ pc = "raised"
    /\ result.kind = "ValueError"

\* C3: the calls on the optimiser and the evaluator follow the cycle ask,
\* evaluate, tell, fbest, stop, once each per iteration, and tell receives
\* exactly the scores that evaluate returned for the batch of the last ask.
CallCycle == << "ask", "evaluate", "tell", "fbest", "stop" >>

C3_AskEvaluateTellAlternate ==
    /\ \A i \in DOMAIN calls :
          IF calls[i] = "xbest"
          THEN i = Len(calls)
          ELSE calls[i] = CallCycle[((i - 1) % Len(CallCycle)) + 1]
    /\ (pc = "update") =>
          /\ told = fs
          /\ Len(told) = Len(xs)
          /\ NumCalls("tell") = NumCalls("ask")
          /\ NumCalls("evaluate") = NumCalls("ask")
          /\ NumCalls("fbest") = NumCalls("tell") - 1
    /\ (pc = "ask") =>
          /\ NumCalls("ask") = iteration
          /\ NumCalls("tell") = iteration
          /\ NumCalls("stop") = iteration

C3_Witness ==
    /\ pc = "update"
    /\ iteration = 1
    /\ Len(told) = 2
    /\ told = fs

\* C4, as stated: the unchanged counter goes up by one when the new best is
\* not strictly less than the old one, is reset when it is strictly less and
\* the improvement exceeds the threshold, and goes up by one when it is
\* strictly less and the improvement does not exceed the threshold.
C4_UnchangedCounterRule ==
    [][(pc = "update" /\ pc' # "update") =>
         unchanged_iterations' =
            IF ~FLt(opt_fbest, fbest)
            THEN unchanged_iterations + 1
            ELSE IF FLt(min_significant_change, FAbs(FSub(opt_fbest, fbest)))
                 THEN 0
                 ELSE unchanged_iterations + 1]_vars

\* C5, as stated: with max iterations set to n (n = 0 included), run()
\* performs at most n iterations.
C5_AtMostMaxIterations ==
    (max_iterations # None) => NumCalls("ask") <= max_iterations[1]

\* C6: with a threshold T set, the loop goes on only while the internal
\* (minimised) best is not strictly below T, and the run halts on the
\* threshold criterion exactly when the internal best is strictly below T.
C6_ThresholdOnInternalBest ==
    /\ (threshold # None /\ InLoop /\ iteration >= 1) =>
          ~FLt(fbest, threshold[1])
    /\ Halted =>
          (("threshold" \in fired) <=>
              (threshold # None /\ FLt(fbest, threshold[1])))

C6_Witness ==
    /\ pc = "returned"
    /\ ~minimising
    /\ "threshold" \in fired
    /\ iteration >= 2
    /\ fbest = Fin(1)

\* C7: throughout run() the user's best value is the internal best for an
\* ErrorMeasure and its negation for a LogPDF, and the fbest that run()
\* returns is the user's value.
C7_UserValueIsSignedBest ==
    /\ (pc \notin {"start", "raised"}) =>
          fbest_user = IF minimising THEN fbest ELSE FNeg(fbest)
    /\ (pc = "returned") =>
          result.fbest = IF minimising THEN fbest ELSE FNeg(fbest)

C7_Witness ==
    /\ pc = "returned"
    /\ ~minimising
    /\ fbest = Fin(1)
    /\ result.fbest = Fin(0 - 1)

\* C8, as stated: every best score run() presents (in-loop log rows, the
\* final log row, the returned fbest, the score printed by the exception
\* handler) is in the user's sign convention.
C8_PresentedInUserSign ==
    LET user == IF minimising THEN fbest ELSE FNeg(fbest)
    IN  /\ (pc = "ask" /\ log_last # NoRow /\ log_last[1] = iteration - 1)
               => log_last[3] = user
        /\ (pc = "returned") => (log_final[3] = user /\ result.fbest = user)
        /\ (pc = "failed") => printed[1] = user

\* C9: a failure of ask, evaluate or tell inside the loop ends run() in the
\* exception handler, which prints the driver's best score and the
\* optimiser's best position and raises the same failure again; nothing is
\* returned, and after a failed evaluate tell is not called for that batch.
C9_FailureIsReportedAndRaised ==
    /\ (failure # NoFailure) <=> (pc = "failed")
    /\ (pc = "failed") =>
          /\ result = [kind |-> "raise", exc |-> failure.exc]
          /\ printed = << fbest, opt_xbest >>
          /\ calls[Len(calls)] = "xbest"
          /\ calls[Len(calls) - 1] = failure.at
    /\ (pc = "failed" /\ failure.at = "evaluate") =>
          /\ NumCalls("tell") = iteration
          /\ NumCalls("tell") = NumCalls("ask") - 1
    /\ (result.kind = "return") => (pc = "returned" /\ failure = NoFailure)

C9_Witness ==
    /\ pc = "failed"
    /\ failure = [at |-> "evaluate", exc |-> "KeyboardInterrupt"]
    /\ iteration = 1
    /\ result.kind = "raise"


\* C10: for a deterministic objective and an evaluator that stores every
\* score at the position of its point, the run has the same batches, scores
\* told, best value, unchanged counter, iteration and evaluation counts, log
\* rows and returned (xbest, fbest) as the same run with a
\* SequentialEvaluator, for every worker count and every order in which the
\* evaluations of a batch complete.
C10_SameTrajectoryAsSequential ==
    (pc # "start") =>
        /\ seq.xs = xs
        /\ seq.told = told
        /\ seq.locals = Locals
        /\ seq.opt_fbest = opt_fbest
        /\ seq.opt_xbest = opt_xbest
        /\ seq.log_final = log_final
        /\ seq.result = result

C10_Witness ==
    /\ pc = "returned"
    /\ evaluator.kind = "parallel"
    /\ evaluator.n_workers = 2
    /\ iteration = 2
    /\ order = << 2, 1 >>
    /\ fs[1] # fs[2]
    /\ told = fs
    /\ seq.result = result

----------------------------------------------------------------------------
\* Properties of the configuration and of the evaluator run() creates.

\* run() has passed the stopping-criterion check and created its evaluator.
EvaluatorCreated == pc \notin {"start", "raised"}

C12_WorkersCappedAtBatchSize ==
    EvaluatorCreated => evaluator.n_workers <= BatchSize

\* C12, amended: the number of workers is capped at the batch size for a
\* population-based optimiser (and a sequential evaluator has one); for a
\* single-point optimiser with parallel evaluation enabled the evaluator has
\* exactly the configured number of workers, whatever the batch size.
C12_WorkersCappedForPopulationsOnly ==
    EvaluatorCreated =>
        /\ (population_based \/ ~parallel) => evaluator.n_workers <= BatchSize
        /\ (~population_based /\ parallel) =>
              /\ evaluator.kind = "parallel"
              /\ evaluator.n_workers = n_workers

C12_Witness ==
    /\ pc = "ask"
    /\ ~population_based
    /\ parallel
    /\ BatchSize = 1
    /\ evaluator = [kind |-> "parallel", n_workers |-> 2]

\* C20: a freshly constructed Optimisation has max_iterations() = 10000,
\* max_unchanged_iterations() = (200, 1e-11), threshold() = None and
\* parallel() = False, and run() on it passes the stopping-criterion check.
C20_FreshConfigurationIsDefault ==
    (call.op = "__init__") =>
        /\ max_iterations = Some(10000)
        /\ MaxUnchangedIterationsGetter
              = << Some(200), Some([k |-> "fin", v |-> 1, e |-> 0 - 11]) >>
        /\ threshold = None
        /\ ParallelGetter = << >>
        /\ (pc # "start") =>
              (pc = "ask" /\ result = NoResult /\ evaluator.kind = "sequential")

C20_Witness ==
    /\ call.op = "__init__"
    /\ pc = "ask"
    /\ max_iterations = Some(10000)
    /\ evaluator.kind = "sequential"

----------------------------------------------------------------------------
\* Properties of PopulationBasedOptimiser.

\* C13: set_population_size raises whenever running() is true, whatever its
\* argument (None, a number, a value that is no number), and raises
\* ValueError for a value below 1 when not running; in both cases the
\* stored population size is left as it was.
C13_SetPopulationSizeRejects ==
    [][(call'.op = "set_population_size") =>
          LET arg == call'.args[1]
              below == /\ arg # None
                       /\ arg[1].kind = "num"
                       /\ arg[1].n < 1
          IN  /\ opt_running =>
                    /\ outcome'.kind = "raise"
                    /\ population_size' = population_size
              /\ (~opt_running /\ below) =>
                    /\ outcome' = [kind |-> "raise", exc |-> "ValueError"]
                    /\ population_size' = population_size]_vars

C13_Witness ==
    /\ opt_running
    /\ call = [op |-> "set_population_size", args |-> << None >>]
    /\ outcome.kind = "raise"
    /\ population_size # None

\* C14, as stated: after set_population_size(None) on an optimiser that is
\* not running, population_size() returns the value of the heuristic, a
\* positive integer, as it does right after construction.
C14_NoneSetsHeuristicSize ==
    /\ (call.op = "__init__") => population_size = Some(suggested)
    /\ (/\ call = [op |-> "set_population_size", args |-> << None >>]
        /\ outcome.kind = "return")
          => (population_size = Some(suggested) /\ suggested >= 1)

\* C15: for the heuristic value p >= 1, suggested_population_size(m) returns
\* for an integer m > 1 the multiple of m that is >= p and < p + m, that is
\* ceil(p / m) * m, and returns p for m = None and for an integer m <= 1.
C15_RoundsUpToMultiple ==
    (call.op = "suggested_population_size") =>
        LET m == call.args[1]
            p == suggested
            r == outcome.value
        IN  /\ outcome.kind = "return"
            /\ (m = None) => r = p
            /\ (m # None /\ ~m[1].half /\ m[1].n <= 1) => r = p
            /\ (m # None /\ ~m[1].half /\ m[1].n > 1) =>
                  /\ r % m[1].n = 0
                  /\ r >= p
                  /\ r < p + m[1].n

C15_Witness ==
    /\ suggested = 4
    /\ call = [op |-> "suggested_population_size",
               args |-> << Some(Num(2, FALSE)) >>]
    /\ outcome = [kind |-> "return", value |-> 4]

----------------------------------------------------------------------------
\* Properties of TriangleWaveTransform.

\* The difference x - lower is a floating point number, so that the
\* transform starts from the exact distance of x to the lower bound.
Resolved(x) == Round(x - wave.lower) = x - wave.lower

\* The rounding error granted to a result: the spacing of the floating
\* point numbers at the period.
Granted == Spacing(wave.range2)

\* The numbers of periods by which inputs are shifted.
MaxPeriods == 2

\* Two calls in a row on inputs that the transform resolves.
BothResolved ==
    /\ call.op = "__call__"
    /\ call'.op = "__call__"
    /\ Resolved(call.args[1])
    /\ Resolved(call'.args[1])

\* C16, granting rounding error: the transform returns x for every x with
\* lower <= x < upper, and the transform of x + k * 2 * (upper - lower) is
\* the transform of x for every integer k. The shifted input is the
\* floating point sum, and what the sum is off by is granted as well.
C16_IdentityInBoxAndPeriodic ==
    [][/\ (/\ call'.op = "__call__"
           /\ wave.lower <= call'.args[1]
           /\ call'.args[1] < wave.upper)
            => Abs(outcome'.value - call'.args[1]) <= Granted
       /\ \A k \in (0 - MaxPeriods)..MaxPeriods :
            (/\ BothResolved
             /\ call'.args[1] = Round(call.args[1] + k * wave.range2))
            => Abs(outcome'.value - outcome.value)
                 <= Granted + Abs(call'.args[1]
                                    - (call.args[1] + k * wave.range2))]_vars

\* C17, granting rounding error: every input is mapped into
\* the closed box, and two inputs are never mapped further apart than they
\* are.
C17_InBoxAndNoJump ==
    [][/\ (call'.op = "__call__") =>
             (wave.lower <= outcome'.value /\ outcome'.value <= wave.upper)
       /\ BothResolved =>
             Abs(outcome'.value - outcome.value)
                <= Abs(call'.args[1] - call.args[1]) + Granted]_vars

\* C36, granting rounding error: with range = upper - lower the transform
\* (TriangleWave above: y = (x - lower) mod 2 * range, z = y mod range,
\* lower + z when y < range and upper - z otherwise) mirrors the search
\* space at both boundaries: T(upper + t) = upper - t and
\* T(lower - t) = lower + t for every 0 <= t <= range, and T(upper) = upper.
C36_MirrorsAtBoundaries ==
    (call.op = "__call__" /\ Resolved(call.args[1])) =>
        LET x == call.args[1]
            t1 == x - wave.upper
            t2 == wave.lower - x
            width == wave.upper - wave.lower
        IN  /\ (0 <= t1 /\ t1 <= width) =>
                  Abs(outcome.value - (wave.upper - t1)) <= Granted
            /\ (0 <= t2 /\ t2 <= width) =>
                  Abs(outcome.value - (wave.lower + t2)) <= Granted
            /\ (x = wave.upper) => outcome.value = wave.upper

\* Properties of Optimiser.__init__.

\* An Optimiser has been constructed.
Constructed == call.op = "__init__" /\ outcome.kind = "return"

\* C18: an Optimiser constructed with sigma0 = None has, with boundaries,
\* sigma0 = boundaries.range() / 6 in every dimension and, without
\* boundaries, sigma0 = |x0| / 3 in every dimension except where x0 is
\* exactly zero, where sigma0 is 1; a scalar sigma0 > 0 is the sigma0 of
\* every one of the d dimensions.
C18_DerivedSigma0 ==
    Constructed =>
        LET x == call.args[1]
            s == call.args[2]
            b == call.args[3]
        IN  /\ (s = None /\ b # None) =>
                  \A i \in 1..Len(x) :
                      /\ sigma0[i].k = "fin"
                      /\ 6 * sigma0[i].v = b[1].upper[i].v - b[1].lower[i].v
            /\ (s = None /\ b = None) =>
                  \A i \in 1..Len(x) :
                      IF x[i] = Fin(0) THEN sigma0[i] = One
                      ELSE /\ sigma0[i].k = x[i].k
                           /\ 3 * sigma0[i].v = Abs(x[i].v)
            /\ (s # None /\ s[1].kind = "scalar"
                  /\ FLt(Fin(0), s[1].value)) =>
                  /\ Len(sigma0) = Len(x)
                  /\ \A i \in 1..Len(x) : sigma0[i] = s[1].value

C18_Witness ==
    /\ Constructed
    /\ call.args[1] = << Fin(0), Fin(0 - (Unit \div 2)) >>
    /\ call.args[2] = None
    /\ call.args[3] = None
    /\ sigma0 = << One, Fin(1) >>

\* C19: every constructed Optimiser has a dimension d >= 1 and a sigma0 of
\* length d whose components are all strictly positive.
C19_PositiveSigma0 ==
    Constructed =>
        /\ dimension >= 1
        /\ Len(sigma0) = dimension
        /\ \A i \in 1..dimension : FLt(Fin(0), sigma0[i])

----------------------------------------------------------------------------
\* Further properties of Optimisation.run.

\* C21: when stop() returns a message after an iteration, run() halts at
\* the end of that iteration; from the halt it makes no further call but
\* xbest() and returns (xbest, fbest) without raising; and when stop()
\* returns False the run goes on unless another criterion is satisfied.
C21_StopHaltsNormally ==
    [][/\ (pc = "update" /\ opt_stop' # "False") =>
             /\ pc' = "halted"
             /\ ~running'
             /\ iteration' = iteration + 1
       /\ (pc = "update" /\ opt_stop' = "False" /\ pc' = "halted") =>
             \/ max_iterations # None /\ iteration' >= max_iterations[1]
             \/ /\ max_unchanged_iterations # None
                /\ unchanged_iterations' >= max_unchanged_iterations[1]
             \/ threshold # None /\ FLt(fbest', threshold[1])
       /\ (pc = "halted") =>
             /\ pc' = "returned"
             /\ calls' = Append(calls, "xbest")
             /\ failure' = NoFailure
             /\ result' = [kind |-> "return", xbest |-> opt_xbest,
                           fbest |-> fbest_user]]_vars

C21_Witness ==
    /\ pc = "returned"
    /\ opt_stop = "Ill-conditioned matrix."
    /\ max_iterations = Some(2)
    /\ max_unchanged_iterations = None
    /\ threshold = None
    /\ iteration = 1
    /\ NumCalls("ask") = 1
    /\ result.kind = "return"

\* C22: run() emits its final log row (iteration count, evaluation count,
\* best value in the user's sign) only after the loop has ended, once, when
\* logging to screen or to file is enabled, and no row at all when both are
\* disabled; in both cases it returns (optimiser.xbest(), best value in the
\* user's sign).
C22_FinalRowThenReturn ==
    LET user == IF minimising THEN fbest ELSE FNeg(fbest)
        enabled == log_to_screen \/ log_filename # None
    IN  /\ (pc # "returned") => log_final = NoRow
        /\ (pc = "returned") =>
              /\ log_final = IF enabled
                             THEN << iteration, evaluations, user >>
                             ELSE NoRow
              /\ result = [kind |-> "return", xbest |-> opt_xbest,
                           fbest |-> user]
        /\ ~enabled => (log_last = NoRow /\ log_iters = {})

C22_Witness ==
    /\ pc = "returned"
    /\ ~log_to_screen
    /\ log_filename = Some("log.txt")
    /\ ~minimising
    /\ iteration = 2
    /\ log_final = << 2, 2, Fin(0 - 1) >>
    /\ result.fbest = Fin(0 - 1)

\* C23: the driver's best value is never NaN, and an iteration after which
\* the optimiser's fbest() is NaN leaves the best value and the user's
\* value as they were, counts as unchanged, and does not satisfy the
\* threshold criterion.
C23_NaNLeavesBestUnchanged ==
    [][/\ fbest'.k # "nan"
       /\ (pc = "update" /\ pc' # "update" /\ opt_fbest.k = "nan") =>
             /\ fbest' = fbest
             /\ fbest_user' = fbest_user
             /\ unchanged_iterations' = unchanged_iterations + 1
             /\ "threshold" \notin fired'
             /\ halt_message' # "threshold"
             /\ ~(threshold # None /\ FLt(fbest', threshold[1]))]_vars

C23_Witness ==
    /\ pc = "ask"
    /\ iteration = 2
    /\ opt_fbest = NaN
    /\ fbest = Fin(1)
    /\ threshold = Some(Fin(1))
    /\ unchanged_iterations = 1

\* C24, as stated: curve_fit, like fmin, returns the tuple (xbest, fbest)
\* of the run it made.
C24_WrappersReturnTuple ==
    (call.op \in {"curve_fit", "fmin"} /\ outcome.kind = "return") =>
        /\ outcome.value.shape = "tuple"
        /\ outcome.value.xbest = result.xbest

\* C27: every iteration evaluates all four stopping criteria: fbest() and
\* stop() have been called once per iteration, the criteria satisfied in
\* the last iteration are all recorded, and a message from stop() is the
\* halt message also when another criterion was satisfied before it.
C27_AllCriteriaEveryIteration ==
    /\ (pc \in {"ask", "halted", "returned"}) =>
          /\ NumCalls("stop") = iteration
          /\ NumCalls("fbest") = iteration
    /\ Halted =>
          /\ ("max_iterations" \in fired) <=>
                (max_iterations # None /\ iteration >= max_iterations[1])
          /\ ("max_unchanged_iterations" \in fired) <=>
                (/\ max_unchanged_iterations # None
                 /\ unchanged_iterations >= max_unchanged_iterations[1])
          /\ ("threshold" \in fired) <=>
                (threshold # None /\ FLt(fbest, threshold[1]))
          /\ ("error" \in fired) <=> (opt_stop # "False")
          /\ (opt_stop # "False") => halt_message = "error"

C27_Witness ==
    /\ pc = "returned"
    /\ iteration = 2
    /\ fired = {"max_iterations", "threshold", "error"}
    /\ NumCalls("stop") = 2
    /\ halt_message = "error"

\* The best value at the end of iteration i of the run so far: float('inf')
\* before the first iteration.
BestAfter(i) == IF i = 0 THEN Inf ELSE bests[i]

\* Two best values differ by at most t.
DiffersAtMost(a, b, t) == a = b \/ FLe(FAbs(FSub(a, b)), t)

\* C28: with set_max_unchanged_iterations(m, t), run() halts on this
\* criterion at the end of the first iteration in which the unchanged
\* counter reaches m (the criterion is among those satisfied exactly when
\* the counter is at least m, and a run that goes on has a counter below m),
\* and at such a halt the best value differs from the best value m
\* iterations earlier by at most t.
C28_UnchangedOverWindow ==
    /\ (Halted /\ max_unchanged_iterations # None) =>
          (("max_unchanged_iterations" \in fired)
              <=> unchanged_iterations >= max_unchanged_iterations[1])
    /\ (InLoop /\ iteration > 0 /\ max_unchanged_iterations # None) =>
          unchanged_iterations < max_unchanged_iterations[1]
    /\ (Halted /\ "max_unchanged_iterations" \in fired
           /\ Len(bests) = iteration) =>
          DiffersAtMost(BestAfter(iteration),
                        BestAfter(iteration - max_unchanged_iterations[1]),
                        min_significant_change)

\* C29: with the max-iterations criterion enabled and every call returning,
\* run() eventually halts and returns, whatever the optimiser reports; and
\* once a criterion is satisfied at the end of an iteration no further
\* iteration is started (run() is past its loop).
C29_HaltsAndReturns ==
    /\ <>(pc = "returned")
    /\ [](fired # {} => Halted)

C29_Witness ==
    /\ pc = "returned"
    /\ max_iterations = Some(2)
    /\ iteration = 2
    /\ fired = {"max_iterations"}
    /\ NumCalls("ask") = 2

\* C30: the iteration count starts at 0 and grows by exactly 1 per
\* iteration, so that at the end of every iteration it is the number of
\* completed ask/evaluate/tell cycles; the evaluation count starts at 0 and
\* grows by the size of the batch of scores of the iteration, so that it is
\* the sum of the sizes of the batches received so far.
C30_CountsIterationsAndEvaluations ==
    /\ []((pc = "start") => (iteration = 0 /\ evaluations = 0))
    /\ []((pc \in {"ask", "halted", "returned"}) =>
             /\ iteration = NumCalls("tell")
             /\ evaluations = NumCalls("tell") * BatchSize)
    /\ [][/\ (pc = "update" /\ pc' # "update") =>
                /\ iteration' = iteration + 1
                /\ evaluations' = evaluations + Len(fs)
                /\ Len(fs) = BatchSize
          /\ (pc \notin {"start", "update"}) =>
                /\ iteration' = iteration
                /\ evaluations' = evaluations]_vars

C30_Witness ==
    /\ pc = "returned"
    /\ population_based
    /\ iteration = 2
    /\ evaluations = 4
    /\ NumCalls("tell") = 2

\* C31: with logging enabled the in-loop log rows follow the cadence: each
\* of the iterations 0, 1, 2 is logged once it is completed, and any other
\* logged iteration has an index that is a multiple of 20.
C31_LogCadence ==
    (Logging /\ pc \in {"ask", "halted", "returned"}) =>
        /\ \A i \in 0..(message_warm_up - 1) :
              i < iteration => i \in log_iters
        /\ \A i \in log_iters :
              i < message_warm_up \/ i % message_interval = 0

\* C35: no optimiser instance is driven by more than one run(): a second
\* run() on the same Optimisation starts from the state of a freshly
\* constructed optimiser (nothing told, no best score, not running) and not
\* from the state the first run left.
C35_FreshOptimiserPerRun ==
    (call.op = "run" /\ pc = "ask" /\ iteration = 0) =>
        /\ opt_fbest = Inf
        /\ told = << >>
        /\ ~opt_running

----------------------------------------------------------------------------
\* Properties of the error measures.

\* C25: a ProbabilityBasedError of a LogPDF has the LogPDF's n_parameters
\* and evaluates to the negation of the LogPDF at every point; constructing
\* one from anything else raises ValueError; and an Optimisation stores a
\* LogPDF wrapped in a ProbabilityBasedError and an ErrorMeasure as it is.
C25_LogPDFIsNegated ==
    [][/\ (call'.op = "ProbabilityBasedError") =>
             LET obj == call'.args[1]
             IN  IF obj.type = "LogPDF"
                 THEN /\ outcome'.kind = "return"
                      /\ measure'.n_parameters = obj.n_parameters
                      /\ \A x \in Points :
                            Value(measure', x) = FNeg(obj.values[x + 1])
                 ELSE /\ outcome' = Raised("ValueError")
                      /\ measure' = NoMeasure
       /\ (call'.op = "Optimisation") =>
             LET function == call'.args[1]
             IN  IF function.type = "LogPDF"
                 THEN /\ ~minimising'
                      /\ \A x \in Points :
                            Value(measure', x) = FNeg(function.values[x + 1])
                 ELSE /\ minimising'
                      /\ measure' = function
       /\ (call'.op = "__call__" /\ measure.type = "ProbabilityBasedError") =>
             outcome'.value = FNeg(measure.log_pdf.values[call'.args[1] + 1])
       /\ (call'.op = "n_parameters"
              /\ measure.type = "ProbabilityBasedError") =>
             outcome'.value = Fin(measure.log_pdf.n_parameters)]_vars

C25_Witness ==
    /\ ~minimising
    /\ call = [op |-> "__call__", args |-> << 0 >>]
    /\ measure.type = "ProbabilityBasedError"
    /\ measure.log_pdf = Object("LogPDF", 3, << Fin(10), Fin(10) >>)
    /\ outcome = Returned(Fin(0 - 10))

\* The weighted sum of the measures from the i-th on, at the point x.
RECURSIVE SumFrom(_, _, _)
SumFrom(m, x, i) ==
    IF i > Len(m.errors) THEN Fin(0)
    ELSE FSub(FMul(m.weights[i], m.errors[i].values[x + 1]),
              FNeg(SumFrom(m, x, i + 1)))

\* C26: a SumOfErrors evaluates at every x to the sum of its measures'
\* values times their weights (all 1 when no weights are given) and
\* reports the measures' common n_parameters; its construction raises an
\* error for an empty list of measures, for a list of weights of another
\* length, for measures with differing n_parameters and for elements that
\* are no error measures or no numbers.
C26_WeightedSum ==
    [][/\ (call'.op = "SumOfErrors") =>
             LET errors == call'.args[1]
                 weights == call'.args[2]
                 bad == \/ Len(errors) = 0
                        \/ weights # None /\ Len(weights[1]) # Len(errors)
                        \/ \E i, j \in DOMAIN errors :
                              errors[i].n_parameters # errors[j].n_parameters
                        \/ \E i \in DOMAIN errors :
                              errors[i] \notin ErrorMeasures
                        \/ weights # None /\ \E i \in DOMAIN weights[1] :
                              weights[1][i] \notin {Fin(0), Fin(1), Fin(2)}
             IN  IF bad
                 THEN outcome'.kind = "raise" /\ measure' = NoMeasure
                 ELSE /\ outcome'.kind = "return"
                      /\ measure'.errors = errors
                      /\ \A i \in DOMAIN errors :
                            measure'.weights[i] = IF weights = None
                                                  THEN Fin(1)
                                                  ELSE weights[1][i]
       /\ (call'.op = "__call__" /\ measure.type = "SumOfErrors") =>
             outcome'.value = SumFrom(measure, call'.args[1], 1)
       /\ (call'.op = "n_parameters" /\ measure.type = "SumOfErrors") =>
             \A i \in DOMAIN measure.errors :
                 outcome'.value = Fin(measure.errors[i].n_parameters)]_vars

C26_Witness ==
    /\ call = [op |-> "__call__", args |-> << 1 >>]
    /\ measure.type = "SumOfErrors"
    /\ measure.weights = << Fin(2), Fin(1) >>
    /\ measure.errors[1].values = << Fin(1), Fin(2) >>
    /\ measure.errors[2].values = << NaN, Fin(3) >>
    /\ outcome = Returned(Fin(7))

----------------------------------------------------------------------------
\* Rejected arguments.

\* C32: Optimiser(x0, sigma0, boundaries) raises ValueError, and leaves no
\* instance behind, exactly when len(x0) < 1, or boundaries are given whose
\* n_parameters() differs from len(x0) or whose check(x0) is false, or
\* sigma0 is a scalar <= 0, a vector of a length other than len(x0) or a
\* vector with a component <= 0; in every other case it returns.
C32_ConstructionErrors ==
    (call.op = "__init__") =>
        LET x == call.args[1]
            s == call.args[2]
            b == call.args[3]
            d == Len(x)
            rejected ==
                \/ d < 1
                \/ b # None /\ Len(b[1].lower) # d
                \/ b # None /\ Len(b[1].lower) = d /\ d >= 1 /\
                      \E i \in 1..d : \/ ~FLe(b[1].lower[i], x[i])
                                      \/ ~FLt(x[i], b[1].upper[i])
                \/ s # None /\ s[1].kind = "scalar"
                      /\ s[1].value.k \in {"fin", "ninf"}
                      /\ s[1].value.v <= 0
                \/ s # None /\ s[1].kind = "vector" /\ Len(s[1].values) # d
                \/ s # None /\ s[1].kind = "vector" /\
                      \E i \in 1..Len(s[1].values) :
                          /\ s[1].values[i].k \in {"fin", "ninf"}
                          /\ s[1].values[i].v <= 0
        IN  /\ rejected <=> (outcome = Raised("ValueError"))
            /\ ~rejected <=> (outcome = Returned(None))
            /\ rejected =>
                  (dimension = 0 /\ x0 = << >> /\ sigma0 = << >>
                     /\ boundaries = << >>)
            /\ ~rejected => (dimension = d /\ x0 = x /\ boundaries = b)

\* Rejected by boundaries.check alone: the starting point lies below the
\* lower boundary.
C32_Witness ==
    /\ call.op = "__init__"
    /\ call.args[1] = << Fin(0 - (Unit \div 2)) >>
    /\ call.args[2] = Some(Scalar(One))
    /\ call.args[3] = Some(Box(<< Fin(0) >>, << Fin(2 * Unit) >>))
    /\ outcome = Raised("ValueError")
    /\ dimension = 0

\* A whole number given as a count.
Count(a) == a.kind = "num" /\ ~a.half

\* C33: set_max_iterations with a negative count raises ValueError and
\* keeps the previous max iterations; set_max_unchanged_iterations with a
\* negative count or a negative threshold raises ValueError and keeps both
\* the previous count and the previous threshold; a count >= 0 or None (and
\* a threshold >= 0) is accepted, and the getters then return what was set,
\* max_unchanged_iterations() returning (None, None) when the criterion is
\* disabled.
C33_SettersRejectAndKeep ==
    /\ [][(pc' = "start" /\ call'.op = "set_max_iterations") =>
             LET it == call'.args[1]
             IN  /\ (it # None /\ Count(it[1]) /\ it[1].n < 0) =>
                       outcome' = Raised("ValueError")
                 /\ (it = None \/ (Count(it[1]) /\ it[1].n >= 0)) =>
                       outcome' = Returned(None)
                 /\ (outcome'.kind = "raise") =>
                       max_iterations' = max_iterations]_vars
    /\ [][(pc' = "start" /\ call'.op = "set_max_unchanged_iterations") =>
             LET it == call'.args[1]
                 change == call'.args[2]
                 negative == \/ it # None /\ Count(it[1]) /\ it[1].n < 0
                             \/ FLt(change, Fin(0))
                 valid == /\ it = None \/ (Count(it[1]) /\ it[1].n >= 0)
                          /\ ~FLt(change, Fin(0))
             IN  /\ negative => outcome' = Raised("ValueError")
                 /\ valid => outcome' = Returned(None)
                 /\ (outcome'.kind = "raise") =>
                       /\ max_unchanged_iterations' = max_unchanged_iterations
                       /\ min_significant_change' = min_significant_change]_vars
    /\ []((call.op = "set_max_iterations" /\ outcome.kind = "return") =>
             LET it == call.args[1]
             IN  /\ (it = None) => max_iterations = None
                 /\ (it # None /\ Count(it[1])) =>
                       max_iterations = Some(it[1].n))
    /\ []((call.op = "set_max_unchanged_iterations"
             /\ outcome.kind = "return") =>
             LET it == call.args[1]
                 change == call.args[2]
             IN  /\ (it = None) =>
                       MaxUnchangedIterationsGetter = << None, None >>
                 /\ (it # None /\ Count(it[1])) =>
                       MaxUnchangedIterationsGetter
                           = << Some(it[1].n), Some(change) >>)

\* A negative threshold given with a valid count, after the criterion had
\* been disabled with the threshold 1: neither is replaced.
C33_Witness ==
    /\ call = [op |-> "set_max_unchanged_iterations",
               args |-> << Some(Num(0, FALSE)), Fin(0 - 1) >>]
    /\ outcome = Raised("ValueError")
    /\ max_unchanged_iterations = None
    /\ min_significant_change = Fin(1)

\* C34: after any sequence of set_parallel calls parallel() returns False
\* or an integer >= 1; set_parallel(True) enables parallel evaluation with
\* the detected core count, set_parallel(k) with k >= 1 enables it with k
\* workers, and set_parallel(0) or set_parallel(False) disables it and
\* resets the stored worker count to 1.
C34_ParallelFalseOrPositive ==
    /\ ParallelGetter = << >> \/ ParallelGetter[1] >= 1
    /\ (call.op = "set_parallel") =>
          LET arg == call.args[1]
          IN  /\ outcome = Returned(None)
              /\ (arg = Bool(TRUE)) =>
                    (ParallelGetter # << >> /\ ParallelGetter[1] \in CpuCounts)
              /\ (Count(arg) /\ arg.n >= 1) => ParallelGetter = Some(arg.n)
              /\ (arg = Bool(FALSE) \/ arg = Num(0, FALSE)) =>
                    (ParallelGetter = << >> /\ ~parallel /\ n_workers = 1)

\* Disabled with set_parallel(0), and run() entered.
C34_Witness ==
    /\ call = [op |-> "set_parallel", args |-> << Num(0, FALSE) >>]
    /\ pc = "ask"
    /\ evaluator.kind = "sequential"
    /\ n_workers = 1
    /\ ~parallel

----------------------------------------------------------------------------
\* Properties of StochasticDegradationModel.

\* A simulation of a model with an initial count n0 > 0 has entered its loop.
Simulating ==
    /\ model # NoModel
    /\ model.pc \in {"loop", "done"}
    /\ FLt(Fin(0), model.n0)

\* C37: for every accepted initial count (any value >= 0) and every rate
\* k > 0, the loop of simulate lowers the recorded count by exactly 1 per
\* reaction at non-decreasing reaction times, never records a negative
\* count, makes no more reactions than the initial count and, when it has
\* ended, has recorded the count 0 after as many reactions as the initial
\* count.
C37_CountsDownToZero ==
    Simulating =>
        /\ \A i \in DOMAIN model.mol_count :
              FLe(Fin(0), model.mol_count[i])
        /\ \A i \in 2..Len(model.mol_count) :
              /\ model.mol_count[i]
                    = FSub(model.mol_count[i - 1], OneMolecule)
              /\ model.time[i - 1] <= model.time[i]
        /\ FLe(FMul(OneMolecule, Fin(Len(model.time) - 1)), model.n0)
        /\ (model.pc = "done") =>
              /\ model.mol_count[Len(model.mol_count)] = Fin(0)
              /\ FMul(OneMolecule, Fin(Len(model.time) - 1)) = model.n0

\* The in-place values of a finished simulation: the count in effect at x.
CountAt(x) ==
    IF \A i \in DOMAIN model.time : model.time[i] < x
    THEN Fin(0)
    ELSE model.mol_count[CHOOSE i \in DOMAIN model.time :
                            /\ model.time[i] <= x
                            /\ \A j \in DOMAIN model.time :
                                  model.time[j] <= x => model.time[j]
                                                          <= model.time[i]]

\* C40: simulate returns one value per requested time, in the order of the
\* times: the i-th value is the count in effect at times[i] (the count
\* recorded at the latest reaction time not after times[i], 0 after the
\* last reaction), whether the times are sorted or not; for an initial
\* count of 0 every value is 0.
C40_ValuesInOrderOfTimes ==
    (model # NoModel /\ model.pc = "done" /\ outcome.kind = "return") =>
        LET times == call.args[2]
            values == outcome.value
        IN  /\ Len(values) = Len(times)
            /\ (model.n0 = Fin(0)) =>
                  \A i \in DOMAIN times : values[i] = Fin(0)
            /\ (model.n0 # Fin(0)) =>
                  \A i \in DOMAIN times : values[i] = CountAt(times[i])

----------------------------------------------------------------------------
\* Properties of the best value kept by run().

\* The lowest of a nonempty set of values that are not NaN.
Lowest(S) == CHOOSE m \in S : \A s \in S : FLe(m, s)

\* C38: the best value kept by run() is float('inf') before the first
\* iteration and is never NaN; each iteration leaves it at the lower of its
\* old value and the optimiser's fbest(), a NaN fbest() being ignored, so
\* that it never increases from one iteration to the next, whatever the
\* optimiser reports.
C38_BestIsLowestSoFar ==
    /\ [](fbest # NaN)
    /\ []((InLoop /\ iteration = 0) => fbest = Inf)
    /\ [][iteration' = iteration + 1 =>
              fbest' = Lowest({fbest} \cup ({opt_fbest} \ {NaN}))]_vars
    /\ [](\A i \in 1..Len(bests) : FLe(BestAfter(i), BestAfter(i - 1)))

\* The optimiser's fbest() went up from 1 to 2 and the best value stayed 1.
C38_Witness ==
    /\ pc = "ask"
    /\ iteration = 2
    /\ bests = << Fin(1), Fin(1) >>
    /\ opt_fbest = Fin(2)
    /\ fbest = Fin(1)

\* C39: with an optimiser whose fbest() is never NaN and never goes up
\* across tell() calls, the best value kept by run() equals the optimiser's
\* fbest() after every iteration, and run() returns the optimiser's xbest()
\* together with the optimiser's fbest() at that moment in the user's sign
\* (negated when the objective is a LogPDF).
C39_ReturnedPairIsConsistent ==
    /\ (iteration > 0 /\ pc \in {"ask", "halted", "returned"}) =>
          fbest = opt_fbest
    /\ pc = "returned" =>
          /\ result.kind = "return"
          /\ result.xbest = opt_xbest
          /\ result.fbest = IF minimising
                             THEN opt_fbest
                             ELSE FNeg(opt_fbest)

\* A second run() of a LogPDF has returned, the optimiser having started it
\* at the best score the first run left.
C39_Witness ==
    /\ pc = "returned"
    /\ call.op = "run"
    /\ ~minimising
    /\ iteration = 2
    /\ opt_fbest = Fin(1)
    /\ result.fbest = FNeg(Fin(1))

====
